---- MODULE Spec2Model ----
(***************************************************************************)
(* c8vm: the CHIP-8 interpreter (src/src/run/interp.rs) and the            *)
(* time-travel history engine (src/src/dbg/hist.rs) as a state machine.    *)
(*                                                                         *)
(* Optional values are sequences of length 0 (None) or 1 (Some(v)).        *)
(* Registers and memory are functions from 0-based indices to bytes.       *)
(* The display buffer is the set of lit pixels, pixel (x, y) = y * 64 + x. *)
(***************************************************************************)
EXTENDS Integers, Sequences, FiniteSets, TLC

\* ------------------------------------------------------------ constants

\* shell.rs:25, PREFIX_INPUT.len() of "(c8db) "
PrefixWidth == 7

\* interp.rs:10
VFLAG == 15
\* interp.rs:12
FONT_STARTING_ADDRESS == 80
\* interp.rs:13
FONT_CHAR_DATA_SIZE == 5
\* prog.rs (imported at interp.rs:3): 4 KiB memory image
PROGRAM_MEMORY_SIZE == 4096
\* prog.rs (imported at interp.rs:3): programs are loaded at 0x200
PROGRAM_STARTING_ADDRESS == 512
\* disp.rs: the display is 64 x 32 pixels
DISPLAY_WIDTH == 64
DISPLAY_HEIGHT == 32
\* hist.rs:20 (250_000 in the source; scaled down, every formula is stated
\* relative to it)
HISTORY_CAPACITY == 3

\* ------------------------------------------------------------ bounds

\* CallSubroutine pushes without a limit (interp.rs:463); the model stops
\* calling at this depth.
MaxStack == 17
\* History.undo(vm, amt): amt ranges over 0..MaxUndo
MaxUndo == 2
\* buffered, not yet drained input events
MaxQueue == 1
\* input events delivered in one run
MaxEvents == 1
\* messages the sender puts on the render channel in one run
MaxSends == 3
\* characters of the shell's input line
MaxInput == 3
\* commands kept in the shell's history
MaxCommands == 2
\* number of states of the abstract random number generator
RngStates == 4
\* the generator is seeded with one of the states 0 .. MaxSeed
MaxSeed == 1

\* ------------------------------------------------------------ bytes

None == << >>
Some(v) == << v >>
IsSome(o) == Len(o) = 1
Unwrap(o) == o[1]

Min(a, b) == IF a < b THEN a ELSE b

Pow2(n) == 2 ^ n

\* bit i (0 = least significant) of v
Bit(v, i) == (v \div Pow2(i)) % 2

RECURSIVE And8(_, _, _)
\* bitwise and of the low n bits
And8(a, b, n) ==
    IF n = 0 THEN 0
    ELSE (IF a % 2 = 1 /\ b % 2 = 1 THEN 1 ELSE 0) + 2 * And8(a \div 2, b \div 2, n - 1)

RECURSIVE Or8(_, _, _)
Or8(a, b, n) ==
    IF n = 0 THEN 0
    ELSE (IF a % 2 = 1 \/ b % 2 = 1 THEN 1 ELSE 0) + 2 * Or8(a \div 2, b \div 2, n - 1)

RECURSIVE Xor8(_, _, _)
Xor8(a, b, n) ==
    IF n = 0 THEN 0
    ELSE (IF a % 2 # b % 2 THEN 1 ELSE 0) + 2 * Xor8(a \div 2, b \div 2, n - 1)

\* ------------------------------------------------------------ font, programs

FONT ==
    << 240, 144, 144, 144, 240,   32,  96,  32,  32, 112,
       240,  16, 240, 128, 240,  240,  16, 240,  16, 240,
       144, 144, 240,  16,  16,  240, 128, 240,  16, 240,
       240, 128, 240, 144, 240,  240,  16,  32,  64,  64,
       240, 144, 240, 144, 240,  240, 144, 240,  16, 240,
       240, 144, 240, 144, 144,  224, 144, 224, 144, 224,
       240, 128, 128, 128, 240,  224, 144, 144, 144, 224,
       240, 128, 240, 128, 240,  240, 128, 240, 128, 128 >>

\* ------------------------------------------------------------ decoder

Inst(op, a, b, c) == [op |-> op, a |-> a, b |-> b, c |-> c]

\* impl From<u16> for InstructionParameters
InstructionParameters(bits) ==
    [ bits |-> bits,
      op   |-> (bits \div 4096) % 16,
      x    |-> (bits \div 256) % 16,
      y    |-> (bits \div 16) % 16,
      n    |-> bits % 16,
      nn   |-> bits % 256,
      nnn  |-> bits % 4096 ]

\* impl From<[u8; 2]> for InstructionParameters: big-endian word
ParametersFromBytes(b0, b1) == InstructionParameters(b0 * 256 + b1)

\* impl TryFrom<InstructionParameters> for Instruction: None is the Err case
Decode(p) ==
    CASE p.op = 0 ->
            (CASE p.nnn = 224 -> Some(Inst("ClearScreen", 0, 0, 0))
               [] p.nnn = 238 -> Some(Inst("SubroutineReturn", 0, 0, 0))
               [] OTHER -> None)
      [] p.op = 1 -> Some(Inst("Jump", p.nnn, 0, 0))
      [] p.op = 2 -> Some(Inst("CallSubroutine", p.nnn, 0, 0))
      [] p.op = 3 -> Some(Inst("SkipIfEqualsConstant", p.x, p.nn, 0))
      [] p.op = 4 -> Some(Inst("SkipIfNotEqualsConstant", p.x, p.nn, 0))
      [] p.op = 5 -> Some(Inst("SkipIfEquals", p.x, p.y, 0))
      [] p.op = 6 -> Some(Inst("SetConstant", p.x, p.nn, 0))
      [] p.op = 7 -> Some(Inst("AddConstant", p.x, p.nn, 0))
      [] p.op = 8 ->
            (CASE p.n = 0 -> Some(Inst("Set", p.x, p.y, 0))
               [] p.n = 1 -> Some(Inst("Or", p.x, p.y, 0))
               [] p.n = 2 -> Some(Inst("And", p.x, p.y, 0))
               [] p.n = 3 -> Some(Inst("Xor", p.x, p.y, 0))
               [] p.n = 4 -> Some(Inst("Add", p.x, p.y, 0))
               [] p.n = 5 -> Some(Inst("Sub", p.x, p.y, 1))
               [] p.n = 6 -> Some(Inst("Shift", p.x, p.y, 1))
               [] p.n = 7 -> Some(Inst("Sub", p.x, p.y, 0))
               [] p.n = 14 -> Some(Inst("Shift", p.x, p.y, 0))
               [] OTHER -> None)
      [] p.op = 9 ->
            (CASE p.n = 0 -> Some(Inst("SkipIfNotEquals", p.x, p.y, 0))
               [] OTHER -> None)
      [] p.op = 10 -> Some(Inst("SetIndex", p.nnn, 0, 0))
      [] p.op = 11 -> Some(Inst("JumpWithOffset", p.nnn, p.x, 0))
      [] p.op = 12 -> Some(Inst("GenerateRandom", p.x, p.nn, 0))
      [] p.op = 13 -> Some(Inst("Display", p.x, p.y, p.n))
      [] p.op = 14 ->
            (CASE p.nn = 158 -> Some(Inst("SkipIfKeyDown", p.x, 0, 0))
               [] p.nn = 161 -> Some(Inst("SkipIfKeyNotDown", p.x, 0, 0))
               [] OTHER -> None)
      [] p.op = 15 ->
            (CASE p.nn = 7 -> Some(Inst("GetDelayTimer", p.x, 0, 0))
               [] p.nn = 21 -> Some(Inst("SetDelayTimer", p.x, 0, 0))
               [] p.nn = 24 -> Some(Inst("SetSoundTimer", p.x, 0, 0))
               [] p.nn = 30 -> Some(Inst("AddToIndex", p.x, 0, 0))
               [] p.nn = 10 -> Some(Inst("GetKey", p.x, 0, 0))
               [] p.nn = 41 -> Some(Inst("SetIndexToHexChar", p.x, 0, 0))
               [] p.nn = 51 -> Some(Inst("StoreDecimal", p.x, 0, 0))
               [] p.nn = 85 -> Some(Inst("Store", p.x, 0, 0))
               [] p.nn = 101 -> Some(Inst("Load", p.x, 0, 0))
               [] OTHER -> None)
      [] OTHER -> None

\* ------------------------------------------------------------ interpreter

\* struct InterpreterInput (Default: all zero / None)
DefaultInput ==
    [ delay_timer |-> 0, down_keys |-> 0,
      just_pressed_key |-> None, just_released_key |-> None ]

\* Interpreter::alloc: byte a of the memory a program is loaded into: zero,
\* the font at 0x50, the program at 0x200. data is the program image as a
\* function from offsets to bytes.
Alloc(data, a) ==
    IF (a - PROGRAM_STARTING_ADDRESS) \in DOMAIN data
        THEN data[a - PROGRAM_STARTING_ADDRESS]
    ELSE IF a >= FONT_STARTING_ADDRESS /\ a < FONT_STARTING_ADDRESS + Len(FONT)
        THEN FONT[a - FONT_STARTING_ADDRESS + 1]
    ELSE 0

\* The 4096 bytes of memory are kept as the bytes that differ from the
\* loaded image Alloc(program): it.memory maps exactly those addresses to
\* their values, so two memories are equal iff their byte arrays are.
Mem(it, a) ==
    IF a \in DOMAIN it.memory THEN it.memory[a] ELSE Alloc(it.program, a)

\* a write that leaves out the last byte
MemWriteShort(it, base, n, val) ==
    LET written == base .. (base + n - 2)
        new(a) == IF a \in written THEN val[a - base] ELSE it.memory[a]
    IN  [ a \in { x \in DOMAIN it.memory \cup written : new(x) # Alloc(it.program, x) }
            |-> new(a) ]

\* memory after memory[base .. base + n - 1] = val[0 .. n - 1]
MemWrite(it, base, n, val) ==
    LET written == base .. (base + n - 1)
        new(a) == IF a \in written THEN val[a - base] ELSE it.memory[a]
    IN  [ a \in { x \in DOMAIN it.memory \cup written : new(x) # Alloc(it.program, x) }
            |-> new(a) ]

\* impl From<Program> for Interpreter; seed is the entropy-seeded RNG state
NewInterpreter(data, seed) ==
    [ memory    |-> [ a \in {} |-> 0 ],
      program   |-> data,
      pc        |-> PROGRAM_STARTING_ADDRESS,
      index     |-> 0,
      stack     |-> << >>,
      registers |-> [ i \in 0 .. 15 |-> 0 ],
      rng       |-> seed,
      input     |-> DefaultInput,
      display   |-> {},
      awaiting_input |-> FALSE,
      request   |-> None ]

\* an address addition that accepts the address one past the end of memory
CheckedAddrAddInclusive(addr, amt) ==
    LET sum == addr + amt
    IN  IF addr <= PROGRAM_MEMORY_SIZE /\ sum <= PROGRAM_MEMORY_SIZE
            THEN Some(sum)
            ELSE None

\* Interpreter::checked_addr_add: None unless addr and addr + amt are both
\* inside memory and the u16 addition did not overflow
CheckedAddrAdd(addr, amt) ==
    LET sum == addr + amt
        result_addr == sum % 65536
        result_overflow == sum >= 65536
    IN  IF addr < PROGRAM_MEMORY_SIZE /\ result_addr < PROGRAM_MEMORY_SIZE /\ ~result_overflow
            THEN Some(result_addr)
            ELSE None

\* Interpreter::fetch: None is the Err case (pc >= memory.len() - 1)
Fetch(it) ==
    IF it.pc < PROGRAM_MEMORY_SIZE - 1
        THEN Some(ParametersFromBytes(Mem(it, it.pc), Mem(it, it.pc + 1)))
        ELSE None

\* Result::and_then(Instruction::try_from): decode what was fetched
AndThenDecode(params) ==
    IF IsSome(params) THEN Decode(Unwrap(params)) ELSE None

\* interp.fetch().and_then(Instruction::try_from).ok()
FetchDecode(it) == AndThenDecode(Fetch(it))

\* a choice of key that takes the pressed key under either kind
PickPressed(kind, key_down, key_up) == key_down

\* Interpreter::pick_key
PickKey(kind, key_down, key_up) ==
    IF kind = "COSMACVIP" THEN key_up ELSE key_down

\* StdRng: the generator advances its state on every draw
RngNext(s) == (s + 1) % RngStates

\* StdRng::next_u32 as a function of the state it is drawn from
RngOutput(s) == s * 109 + 77

\* the pixels of an n-row sprite read from memory[it.index ..] placed at
\* (vx mod 64, vy mod 32), clipped at the right and bottom edges
SpritePixels(it, vx, vy, height) ==
    LET x0 == vx % DISPLAY_WIDTH
        y0 == vy % DISPLAY_HEIGHT
    IN  { (y0 + r) * DISPLAY_WIDTH + (x0 + b) :
            <<r, b>> \in { q \in (0 .. (height - 1)) \X (0 .. 7) :
                            /\ y0 + q[1] < DISPLAY_HEIGHT
                            /\ x0 + q[2] < DISPLAY_WIDTH
                            /\ Bit(Mem(it, it.index + q[1]), 7 - q[2]) = 1 } }

\* disp::write_to_display: XOR the sprite onto the display; the flag tells
\* whether a lit pixel was turned off
WriteToDisplay(display, sprite) ==
    [ display |-> (display \ sprite) \cup (sprite \ display),
      flag    |-> IF display \cap sprite # {} THEN 1 ELSE 0 ]

\* Interpreter::exec_display_instruction, lines 671 and 677: VF and the
\* display take what write_to_display returns
SetDisplayed(it, w) ==
    [ it EXCEPT !.display = w.display, !.registers[VFLAG] = w.flag ]

\* Interpreter::exec_display_instruction
ExecDisplayInstruction(it, vx, vy, height) ==
    SetDisplayed(it, WriteToDisplay(it.display,
                        SpritePixels(it, it.registers[vx], it.registers[vy], height)))

Ok(it) == [ it |-> it, res |-> "ok" ]
Err(it) == [ it |-> it, res |-> "err" ]
Panic(it) == [ it |-> it, res |-> "panic" ]

\* a call that saves the call target instead of the return address
CallSavingTarget(it, addr) ==
    [ it EXCEPT !.stack = Append(it.stack, addr), !.pc = addr ]

\* Interpreter::exec, CallSubroutine: push the program counter (it already
\* points past the call), jump to addr
CallSubroutine(it, addr) ==
    [ it EXCEPT !.stack = Append(it.stack, it.pc), !.pc = addr ]

\* a skip that steps over two instructions
SkipTwo(it) == [ it EXCEPT !.pc = it.pc + 4 ]

\* Interpreter::exec, the Skip* arms: step over the next instruction
SkipNext(it) == [ it EXCEPT !.pc = it.pc + 2 ]

\* a return that reports an empty stack as an error of the step
ReturnOrError(it) ==
    IF it.stack = << >> THEN Err(it)
    ELSE Ok([ it EXCEPT !.pc = it.stack[Len(it.stack)],
                        !.stack = SubSeq(it.stack, 1, Len(it.stack) - 1) ])

\* Interpreter::exec, SubroutineReturn: stack.pop().expect(..) aborts when
\* the stack is empty
SubroutineReturn(it) ==
    IF it.stack = << >> THEN Panic(it)
    ELSE Ok([ it EXCEPT !.pc = it.stack[Len(it.stack)],
                        !.stack = SubSeq(it.stack, 1, Len(it.stack) - 1) ])

\* an addition that writes the flag before the sum
AddFlagFirst(it, vx, vy) ==
    LET sum == it.registers[vx] + it.registers[vy]
    IN  [ it EXCEPT !.registers[VFLAG] = IF sum >= 256 THEN 1 ELSE 0,
                    !.registers[vx] = sum % 256 ]

\* Interpreter::exec, Add: Vx takes the sum, then VF the carry
Add(it, vx, vy) ==
    LET sum == it.registers[vx] + it.registers[vy]
    IN  [ it EXCEPT !.registers[vx] = sum % 256,
                    !.registers[VFLAG] = IF sum >= 256 THEN 1 ELSE 0 ]

\* an addition to I that flags a result outside memory in VF
AddToIndexFlagging(it, vx) ==
    LET sum == it.index + it.registers[vx]
    IN  [ it EXCEPT !.index = sum % 65536,
                    !.registers[VFLAG] = IF sum >= PROGRAM_MEMORY_SIZE THEN 1 ELSE 0 ]

\* Interpreter::exec, AddToIndex: index.overflowing_add(Vx).0
AddToIndex(it, vx) ==
    [ it EXCEPT !.index = (it.index + it.registers[vx]) % 65536 ]

\* Interpreter::exec. ovf tells whether the build checks arithmetic overflow
\* (the shift of down_keys by a register value of 16 or more).
Exec(it, kind, inst, ovf) ==
    LET r  == it.registers
        op == inst.op
        a  == inst.a
        b  == inst.b
        c  == inst.c
        skip == Ok(SkipNext(it))
    IN
    CASE op = "ClearScreen" ->
            Ok([ it EXCEPT !.display = {}, !.request = Some([ tag |-> "Display", v |-> 0 ]) ])
      [] op = "Jump" -> Ok([ it EXCEPT !.pc = a ])
      [] op = "JumpWithOffset" ->
            LET offset == IF kind = "CHIP48" THEN r[b] ELSE r[0]
                room == IF PROGRAM_MEMORY_SIZE >= a THEN PROGRAM_MEMORY_SIZE - a ELSE 0
            IN  IF offset < room THEN Ok([ it EXCEPT !.pc = a + offset ]) ELSE Err(it)
      [] op = "CallSubroutine" ->
            Ok(CallSubroutine(it, a))
      [] op = "SubroutineReturn" -> SubroutineReturn(it)
      [] op = "SkipIfEqualsConstant" -> IF r[a] = b THEN skip ELSE Ok(it)
      [] op = "SkipIfNotEqualsConstant" -> IF r[a] # b THEN skip ELSE Ok(it)
      [] op = "SkipIfEquals" -> IF r[a] = r[b] THEN skip ELSE Ok(it)
      [] op = "SkipIfNotEquals" -> IF r[a] # r[b] THEN skip ELSE Ok(it)
      [] op = "SkipIfKeyDown" ->
            IF r[a] >= 16 /\ ovf THEN Panic(it)
            ELSE IF Bit(it.input.down_keys, r[a] % 16) = 1 THEN skip ELSE Ok(it)
      [] op = "SkipIfKeyNotDown" ->
            IF r[a] >= 16 /\ ovf THEN Panic(it)
            ELSE IF Bit(it.input.down_keys, r[a] % 16) = 0 THEN skip ELSE Ok(it)
      [] op = "GetKey" ->
            LET key == PickKey(kind, it.input.just_pressed_key, it.input.just_released_key)
            IN  IF IsSome(key) THEN Ok([ it EXCEPT !.registers[a] = Unwrap(key) ])
                ELSE Ok([ it EXCEPT !.pc = it.pc - 2 ])
      [] op = "SetConstant" -> Ok([ it EXCEPT !.registers[a] = b ])
      [] op = "AddConstant" -> Ok([ it EXCEPT !.registers[a] = (r[a] + b) % 256 ])
      [] op = "Set" -> Ok([ it EXCEPT !.registers[a] = r[b] ])
      [] op = "Or" -> Ok([ it EXCEPT !.registers[a] = Or8(r[a], r[b], 8) ])
      [] op = "And" -> Ok([ it EXCEPT !.registers[a] = And8(r[a], r[b], 8) ])
      [] op = "Xor" -> Ok([ it EXCEPT !.registers[a] = Xor8(r[a], r[b], 8) ])
      [] op = "Add" -> Ok(Add(it, a, b))
      [] op = "Sub" ->
            LET lhs == IF c = 1 THEN r[a] ELSE r[b]
                rhs == IF c = 1 THEN r[b] ELSE r[a]
                overflowed == lhs < rhs
            IN  Ok([ it EXCEPT !.registers[a] = (lhs - rhs + 256) % 256,
                               !.registers[VFLAG] = IF overflowed THEN 0 ELSE 1 ])
      [] op = "Shift" ->
            LET bits == IF kind = "COSMACVIP" THEN r[b] ELSE r[a]
            IN  IF c = 1
                THEN Ok([ it EXCEPT !.registers[VFLAG] = bits % 2,
                                    !.registers[a] = bits \div 2 ])
                ELSE Ok([ it EXCEPT !.registers[VFLAG] = bits \div 128,
                                    !.registers[a] = (bits * 2) % 256 ])
      [] op = "GetDelayTimer" -> Ok([ it EXCEPT !.registers[a] = it.input.delay_timer ])
      [] op = "SetDelayTimer" ->
            Ok([ it EXCEPT !.request = Some([ tag |-> "SetDelayTimer", v |-> r[a] ]) ])
      [] op = "SetSoundTimer" ->
            Ok([ it EXCEPT !.request = Some([ tag |-> "SetSoundTimer", v |-> r[a] ]) ])
      [] op = "SetIndex" -> Ok([ it EXCEPT !.index = a ])
      [] op = "SetIndexToHexChar" ->
            Ok([ it EXCEPT !.index = FONT_STARTING_ADDRESS + FONT_CHAR_DATA_SIZE * r[a] ])
      [] op = "AddToIndex" -> Ok(AddToIndex(it, a))
      [] op = "Load" ->
            LET addr == CheckedAddrAdd(it.index, a)
            IN  IF IsSome(addr)
                THEN Ok([ it EXCEPT
                           !.registers = [ i \in 0 .. 15 |->
                                             IF i <= a THEN Mem(it, it.index + i) ELSE r[i] ],
                           !.index = IF kind = "COSMACVIP"
                                        THEN (Unwrap(addr) + 1) % 65536 ELSE it.index ])
                ELSE Err(it)
      [] op = "Store" ->
            LET addr == CheckedAddrAdd(it.index, a)
            IN  IF IsSome(addr)
                THEN Ok([ it EXCEPT
                           !.memory = MemWrite(it, it.index, a + 1, r),
                           !.index = IF kind = "COSMACVIP"
                                        THEN (Unwrap(addr) + 1) % 65536 ELSE it.index ])
                ELSE Err(it)
      [] op = "StoreDecimal" ->
            LET addr == CheckedAddrAdd(it.index, 2)
                number == r[a]
            IN  IF IsSome(addr)
                THEN Ok([ it EXCEPT !.memory =
                           MemWrite(it, it.index, 3,
                                    [ i \in 0 .. 2 |-> (number \div (10 ^ (2 - i))) % 10 ]) ])
                ELSE Err(it)
      [] op = "GenerateRandom" ->
            Ok([ it EXCEPT !.registers[a] = And8(RngOutput(it.rng) % 256, b, 8),
                           !.rng = RngNext(it.rng) ])
      [] op = "Display" ->
            IF CheckedAddrAdd(it.index, IF c >= 1 THEN c - 1 ELSE 0) = None
            THEN Err(it)
            ELSE Ok([ ExecDisplayInstruction(it, a, b, c) EXCEPT
                        !.request = Some([ tag |-> "Display", v |-> 0 ]) ])

\* a step that leaves the program counter advanced when execution fails
KeepAdvanced(e) == e

\* Interpreter::step, lines 400-405: an execution error reverts the
\* program counter
RevertOnError(e) ==
    IF e.res = "err" THEN Err([ e.it EXCEPT !.pc = e.it.pc - 2 ]) ELSE e

\* Interpreter::step, lines 394-408: inst is what fetch and decode gave, None
\* when either failed
StepDecoded(it, kind, inst, ovf) ==
    IF ~IsSome(inst) THEN Err(it)
    ELSE RevertOnError(Exec([ it EXCEPT !.pc = it.pc + 2 ], kind, Unwrap(inst), ovf))

\* a step that leaves the request of the step before in the output
KeepRequest(it) == it

\* Interpreter::step, lines 390-391: clear the output request
ClearRequest(it) == [ it EXCEPT !.request = None ]

\* Interpreter::step: res is "ok" (Ok(&output)), "err" (fetch, decode or
\* execution error) or "panic"
InterpreterStep(it, kind, ovf) ==
    StepDecoded(ClearRequest(it), kind, FetchDecode(it), ovf)

\* ------------------------------------------------------------ fragments

\* impl From<&Interpreter> for InterpreterHistoryFragment: index_memory,
\* 16 bytes from memory[index ..], zero where memory ends
IndexMemory(it) ==
    LET n == IF it.index < PROGRAM_MEMORY_SIZE
                THEN Min(it.index + 16, PROGRAM_MEMORY_SIZE) - it.index
                ELSE 0
    IN  [ i \in 0 .. 15 |-> IF i < n THEN Mem(it, it.index + i) ELSE 0 ]

\* impl From<&Interpreter> for InterpreterHistoryFragment: payload
FragmentPayload(it, instruction) ==
    IF IsSome(instruction) /\ Unwrap(instruction).op = "GenerateRandom"
        THEN Some([ tag |-> "Rng", rng |-> it.rng ])
    ELSE IF IsSome(instruction) /\ Unwrap(instruction).op = "ClearScreen"
        THEN Some([ tag |-> "Display", display |-> it.display ])
    ELSE None

\* impl From<&Interpreter> for InterpreterHistoryFragment, lines 230-247
FragmentWith(it, instruction) ==
    [ instruction    |-> instruction,
      pc             |-> it.pc,
      return_address |-> IF it.stack = << >> THEN 0 ELSE it.stack[Len(it.stack)],
      index          |-> it.index,
      index_memory   |-> IndexMemory(it),
      registers      |-> it.registers,
      payload        |-> FragmentPayload(it, instruction) ]

\* impl From<&Interpreter> for InterpreterHistoryFragment
InterpreterHistoryFragment(it) == FragmentWith(it, FetchDecode(it))

\* Interpreter::undo, lines 346-349: how many bytes the destination slice
\* memory[index .. index + n] holds; None when computing n or taking the
\* slice faults (index beyond the end of memory)
UndoSliceLen(index) ==
    IF index > PROGRAM_MEMORY_SIZE THEN None
    ELSE Some(Min(index + 16, PROGRAM_MEMORY_SIZE) - index)

\* Interpreter::undo, line 349: copy_from_slice of the 16 saved bytes into
\* the destination slice of n bytes; it panics unless both hold 16 bytes
CopyFromSlice(it, prior_state, n) ==
    IF ~IsSome(n) \/ Unwrap(n) # 16 THEN Panic(it)
    ELSE Ok([ it EXCEPT !.memory =
                MemWrite(it, prior_state.index, 16, prior_state.index_memory) ])

\* Interpreter::undo, lines 346-349
UndoMemory(it, prior_state) ==
    CopyFromSlice(it, prior_state, UndoSliceLen(prior_state.index))

\* an undo of CallSubroutine that leaves the pushed entry on the stack
UndoCallKeeping(it) == it

\* Interpreter::undo, CallSubroutine arm: stack.pop()
UndoCall(it) ==
    [ it EXCEPT !.stack = IF it.stack = << >> THEN << >>
                          ELSE SubSeq(it.stack, 1, Len(it.stack) - 1) ]

\* Interpreter::undo, lines 355-381: the instruction-specific part
UndoInstruction(it, prior_state, inst) ==
    CASE inst.op = "CallSubroutine" -> Ok(UndoCall(it))
      [] inst.op = "SubroutineReturn" ->
            Ok([ it EXCEPT !.stack = Append(it.stack, prior_state.return_address) ])
      [] inst.op = "Display" ->
            Ok([ ExecDisplayInstruction(it, inst.a, inst.b, inst.c) EXCEPT
                    !.registers[VFLAG] = prior_state.registers[VFLAG] ])
      [] inst.op = "ClearScreen" ->
            IF IsSome(prior_state.payload) /\ Unwrap(prior_state.payload).tag = "Display"
                THEN Ok([ it EXCEPT !.display = Unwrap(prior_state.payload).display ])
                ELSE Panic(it)
      [] inst.op = "GenerateRandom" ->
            IF IsSome(prior_state.payload) /\ Unwrap(prior_state.payload).tag = "Rng"
                THEN Ok([ it EXCEPT !.rng = Unwrap(prior_state.payload).rng ])
                ELSE Panic(it)
      [] OTHER -> Ok(it)

\* Interpreter::undo, lines 350-381: copied is the outcome of the memory copy
UndoCopied(copied, prior_state) ==
    IF copied.res = "panic" THEN copied
    ELSE IF ~IsSome(prior_state.instruction) THEN Panic(copied.it)
    ELSE UndoInstruction(copied.it, prior_state, Unwrap(prior_state.instruction))

\* Interpreter::undo
InterpreterUndo(it, prior_state) ==
    UndoCopied(UndoMemory([ it EXCEPT !.pc = prior_state.pc,
                                      !.index = prior_state.index,
                                      !.registers = prior_state.registers ],
                          prior_state),
               prior_state)

\* ------------------------------------------------------------ virtual machine
\* run/vm.rs: the VM wraps the interpreter with the keyboard, the timers and
\* the queue of input events the poller has delivered.

\* one keyboard transition applied to the input-shaped state
ApplyEvent(kb, ev) ==
    IF ev.pressed
        THEN [ kb EXCEPT !.down_keys = Or8(kb.down_keys, Pow2(ev.key), 16),
                         !.just_pressed_key = Some(ev.key) ]
        ELSE [ kb EXCEPT !.down_keys = And8(kb.down_keys, 65535 - Pow2(ev.key), 16),
                         !.just_released_key = Some(ev.key) ]

RECURSIVE ApplyEvents(_, _)
ApplyEvents(kb, q) ==
    IF q = << >> THEN kb ELSE ApplyEvents(ApplyEvent(kb, Head(q)), Tail(q))

\* VM::drain_event_queue: apply the buffered input events in order
DrainEventQueue(v) ==
    [ v EXCEPT !.keyboard = ApplyEvents(v.keyboard, v.event_queue),
               !.event_queue = << >> ]

\* VM::to_history_fragment: the interpreter fragment plus the input-shaped
\* fields of the VM
VMHistoryFragment(v) ==
    [ interpreter |-> InterpreterHistoryFragment(v.interp),
      keyboard    |-> v.keyboard,
      delay_timer |-> v.delay_timer,
      sound_timer |-> v.sound_timer ]

\* VMHistoryFragment::restore: overwrite the input-shaped fields of the VM
Restore(v, f) ==
    [ v EXCEPT !.keyboard = f.keyboard,
               !.delay_timer = f.delay_timer,
               !.sound_timer = f.sound_timer ]

\* the input snapshot handed to the interpreter for one tick
SnapshotInput(kb, delay_timer) ==
    [ delay_timer       |-> delay_timer,
      down_keys         |-> kb.down_keys,
      just_pressed_key  |-> kb.just_pressed_key,
      just_released_key |-> kb.just_released_key ]

\* the timers count down once per tick and stop at zero
TimerTick(t) == IF t > 0 THEN t - 1 ELSE 0

\* the interpreter's request applied to the VM's timers
ApplyRequest(v, request) ==
    IF IsSome(request) /\ Unwrap(request).tag = "SetDelayTimer"
        THEN [ v EXCEPT !.delay_timer = Unwrap(request).v ]
    ELSE IF IsSome(request) /\ Unwrap(request).tag = "SetSoundTimer"
        THEN [ v EXCEPT !.sound_timer = Unwrap(request).v ]
    ELSE v

\* the interpreter is waiting when the instruction it just ran was a GetKey
\* that found no key
IsWaiting(inst, kind, input) ==
    /\ IsSome(inst)
    /\ Unwrap(inst).op = "GetKey"
    /\ ~IsSome(PickKey(kind, input.just_pressed_key, input.just_released_key))

\* VM::step after the interpreter step s: apply the request, clear the
\* ephemeral input flags. res "ok" is Ok(true).
VMStepFinish(v, s, waiting) ==
    IF s.res = "panic" THEN [ vm |-> [ v EXCEPT !.interp = s.it ], res |-> "panic" ]
    ELSE IF s.res = "err"
        THEN [ vm |-> [ v EXCEPT !.interp = s.it, !.waiting = FALSE ], res |-> "err" ]
    ELSE [ vm |-> [ ApplyRequest(v, s.it.request) EXCEPT
                      !.interp = s.it,
                      !.waiting = waiting,
                      !.keyboard.just_pressed_key = None,
                      !.keyboard.just_released_key = None,
                      !.interp.input.just_pressed_key = None,
                      !.interp.input.just_released_key = None ],
           res |-> "ok" ]

\* VM::step on the interpreter snap that holds the input snapshot
VMStepSnapped(v, snap, kind, ovf) ==
    VMStepFinish([ v EXCEPT !.delay_timer = TimerTick(v.delay_timer),
                            !.sound_timer = TimerTick(v.sound_timer) ],
                 InterpreterStep(snap, kind, ovf),
                 IsWaiting(FetchDecode(snap), kind, snap.input))

\* VM::step: snapshot input, timer update, interpreter step, apply the
\* request, clear the ephemeral input flags
VMStep(v, kind, ovf) ==
    VMStepSnapped(v, [ v.interp EXCEPT !.input = SnapshotInput(v.keyboard, v.delay_timer) ],
                  kind, ovf)

\* VM::undo after the interpreter's undo u
VMUndone(v, u) == [ vm |-> [ v EXCEPT !.interp = u.it ], res |-> u.res ]

\* VM::undo: restore the input-shaped fields, undo the interpreter
VMUndo(v, f) == VMUndone(Restore(v, f), InterpreterUndo(v.interp, f.interpreter))

\* VM::new
NewVM(data, seed) ==
    [ interp      |-> NewInterpreter(data, seed),
      keyboard    |-> [ down_keys |-> 0, just_pressed_key |-> None,
                        just_released_key |-> None ],
      delay_timer |-> 0,
      sound_timer |-> 0,
      event_queue |-> << >>,
      waiting     |-> FALSE ]

\* ------------------------------------------------------------ programs

\* a program image: the bytes of seq at offsets 0 .. Len(seq) - 1
Image(seq) == [ i \in 0 .. (Len(seq) - 1) |-> seq[i + 1] ]

\* 22 04 00 00 00 EE: call 0x204, return
ProgCallReturn == Image(<< 34, 4, 0, 0, 0, 238 >>)

\* 22 00: a subroutine that calls itself
ProgRecurse == Image(<< 34, 0 >>)

\* 60 05 61 07 80 14 00 EE: V0 = 5, V1 = 7, V0 += V1, then a return with
\* nothing to return to
ProgAdd == Image(<< 96, 5, 97, 7, 128, 20, 0, 238 >>)

\* C0 0F 12 00: V0 = random & 0x0F, forever
ProgRandom == Image(<< 192, 15, 18, 0 >>)

\* A0 50 6F 3C 61 1E DF 15 00 E0 DF 15 12 06: draw glyph 0 at (VF, V1),
\* clear the screen, draw again, loop to the first draw
ProgDraw ==
    Image(<< 160, 80, 111, 60, 97, 30, 223, 21, 0, 224, 223, 21, 18, 6 >>)

\* AF FF D0 01 C0 0F 00 E0 60 10 F0 1E 61 02: I = 0xFFF, then a draw, a
\* random number, a clear screen, V0 = 16, I += V0, V1 = 2
ProgHighIndex ==
    Image(<< 175, 255, 208, 1, 192, 15, 0, 224, 96, 16, 240, 30, 97, 2 >>)

\* 12 05 .. 1F FE at 0x205: jump to the odd address 0x205, from there to
\* 0xFFE, where 30 00 skips past the end of memory
ProgEdge ==
    Image(<< 18, 5, 0, 0, 0, 31, 254 >>) @@ (3582 :> 48) @@ (3583 :> 0)

\* A3 00 60 AB 61 CD F1 55 F0 33 F1 65 12 00: store V0..V1 at 0x300,
\* store the digits of V0, load V0..V1 back, loop
ProgStore ==
    Image(<< 163, 0, 96, 171, 97, 205, 241, 85, 240, 51, 241, 101, 18, 0 >>)

\* F0 0A E0 9E F0 15 F1 07 12 00: wait for a key, skip if it is down,
\* set the delay timer from V0, read it into V1, loop
ProgKeys ==
    Image(<< 240, 10, 224, 158, 240, 21, 241, 7, 18, 0 >>)

\* 00 E0 F0 15 F1 18 D0 11 70 01: clear the screen, set the delay timer
\* from V0, the sound timer from V1, draw one row, add 1 to V0
ProgRequests == Image(<< 0, 224, 240, 21, 241, 24, 208, 17, 112, 1 >>)

\* AF FF 22 06 00 00 00 EE: I = 0xFFF, call 0x206, return
ProgHighCall == Image(<< 175, 255, 34, 6, 0, 0, 0, 238 >>)

\* A0 50 D0 15: draw glyph 0 at (V0, V0), then run into the zeroes after
\* the program
ProgDrawStop == Image(<< 160, 80, 208, 21 >>)

Programs ==
    [ CallReturn |-> ProgCallReturn, Recurse |-> ProgRecurse, Add |-> ProgAdd,
      Random |-> ProgRandom, Draw |-> ProgDraw, HighIndex |-> ProgHighIndex,
      Edge |-> ProgEdge, Store |-> ProgStore, Keys |-> ProgKeys,
      HighCall |-> ProgHighCall, DrawStop |-> ProgDrawStop ]

Kinds == { "COSMACVIP", "CHIP48" }

\* hex keys the input poller delivers
Keys == { 1 }

\* ------------------------------------------------------------ history engine

VARIABLES
    program,    \* name of the loaded program
    kind,       \* the program's kind
    vm,         \* the virtual machine
    history,    \* History: fragments, cursor, present_fragment
    panicked,   \* the process has aborted
    trail,      \* for each fragment of the history, the interpreter state it was taken from
    delivered,  \* number of input events delivered so far
    last,       \* what the last call was, and what it saw
    threads,    \* the threads of main: where each is, who holds the lock on the VM
    shell       \* the debugger's Shell and the state of its CommandLineWidget

vars ==
    << program, kind, vm, history, panicked, trail, delivered, last, threads, shell >>

\* Shell::default() and CommandLineWidgetState::default()
DefaultShell ==
    [ input_enabled |-> FALSE, input |-> << >>, cursor_position |-> 0,
      history |-> << >>, history_index |-> 0, input_offset |-> 0 ]

\* main before line 109: no thread is spawned, the lock is free, nothing is
\* joined
NotSpawned ==
    [ interp |-> "none", render |-> "none", event |-> "none",
      mutex |-> "free", joined |-> 0, renderer |-> "none", main |-> "running" ]

\* History::new
NewHistory == [ fragments |-> << >>, present_fragment |-> None, cursor |-> 0 ]

\* History::redo_amount: fragments.len().abs_diff(cursor)
RedoAmount(h) ==
    IF Len(h.fragments) >= h.cursor
        THEN Len(h.fragments) - h.cursor
        ELSE h.cursor - Len(h.fragments)

\* VecDeque::truncate
Truncate(s, n) == IF n < Len(s) THEN SubSeq(s, 1, n) ELSE s

\* History::clear_redo_history
ClearRedoHistory(h) == [ h EXCEPT !.fragments = Truncate(h.fragments, h.cursor) ]

\* History::undo, line 59: one more fragment has been rewound
CountRewind(rest) == [ rest EXCEPT !.amt_rewinded = rest.amt_rewinded + 1 ]

RECURSIVE UndoLoop(_, _, _, _)
RECURSIVE UndoNext(_, _, _, _)

\* History::undo, lines 57-59, after vm.undo gave u
UndoNext(u, fragments, cursor, amt) ==
    IF u.res = "panic"
        THEN [ vm |-> u.vm, cursor |-> cursor, amt_rewinded |-> 0, res |-> "panic" ]
    ELSE CountRewind(UndoLoop(u.vm, fragments, cursor, amt))

\* History::undo, lines 52-61: the loop
UndoLoop(v, fragments, cursor, amt) ==
    IF amt = 0 \/ cursor = 0
        THEN [ vm |-> v, cursor |-> cursor, amt_rewinded |-> 0, res |-> "ok" ]
    ELSE UndoNext(VMUndo(v, fragments[cursor]), fragments, cursor - 1, amt - 1)

\* an undo that takes the snapshot wherever the cursor is
SnapshotAlways(v, h) == Some(VMHistoryFragment(v))

\* History::undo, lines 48-50: the snapshot of the present
PresentFragment(v, h) ==
    IF RedoAmount(h) = 0 THEN Some(VMHistoryFragment(v)) ELSE h.present_fragment

\* History::undo, lines 52-61, on the outcome of the loop
HistoryUndone(h, present, loop) ==
    [ vm |-> loop.vm,
      history |-> [ h EXCEPT !.present_fragment = present, !.cursor = loop.cursor ],
      amt_rewinded |-> loop.amt_rewinded,
      res |-> loop.res ]

\* History::undo
HistoryUndo(v, h, amt) ==
    HistoryUndone(h, PresentFragment(v, h), UndoLoop(v, h.fragments, h.cursor, amt))

\* History::step, line 102: the cursor after the step
AdvanceCursor(cursor, fragments) == Min(cursor + 1, Len(fragments))

\* a push that never evicts
PushWithoutEvicting(fragments, state) == Append(fragments, state)

\* a push that evicts the newest fragment instead of the oldest
PushEvictingNewest(fragments, state) ==
    Append(IF Len(fragments) = HISTORY_CAPACITY
              THEN SubSeq(fragments, 1, Len(fragments) - 1) ELSE fragments, state)

\* a truncation that keeps the fragment at the cursor
DiscardAfterNext(fragments, cursor) == Truncate(fragments, cursor + 1)

\* History::step, line 82: discard the redo branch
DiscardRedo(fragments, cursor) == Truncate(fragments, cursor)

\* History::step, lines 96-99: evict the oldest fragment when full, push
PushFragment(fragments, state) ==
    Append(IF Len(fragments) = HISTORY_CAPACITY THEN Tail(fragments) ELSE fragments, state)

\* a step that restores the input in the past only
RestoreInPast(v, h, redo_amount, present) ==
    IF RedoAmount(h) > 0 THEN Restore(v, h.fragments[h.cursor + 1]) ELSE v

\* History::step, lines 104-113: restore the state of the VM that does not
\* depend on the step. h is the history after the step, redo_amount the
\* amount computed before it, present the snapshot before the step.
RestoreInput(v, h, redo_amount, present) ==
    IF RedoAmount(h) > 0 THEN Restore(v, h.fragments[h.cursor + 1])
    ELSE IF IsSome(present) /\ redo_amount > 0 THEN Restore(v, Unwrap(present))
    ELSE v

\* History::step, lines 107-108: present_fragment.take() at the present
TakePresent(h) ==
    IF RedoAmount(h) > 0 THEN h ELSE [ h EXCEPT !.present_fragment = None ]

\* History::step, lines 102-115, with the fragments after recording
HistoryStepAdvance(h, fragments, redo_amount, r, state, diverged, recorded, evicted) ==
    [ vm |-> RestoreInput(r.vm,
                [ h EXCEPT !.fragments = fragments,
                           !.cursor = AdvanceCursor(h.cursor, fragments) ],
                redo_amount, h.present_fragment),
      history |-> TakePresent([ h EXCEPT !.fragments = fragments,
                                         !.cursor = AdvanceCursor(h.cursor, fragments) ]),
      res |-> r.res,
      state |-> state,
      diverged |-> diverged,
      recorded |-> recorded,
      evicted |-> evicted ]

\* a history that records every step made at the present
RecordedAtPresent(redo_amount, r) == redo_amount = 0

\* a history that also records the steps that failed
RecordedUnlessWaiting(redo_amount, r) == redo_amount = 0 /\ ~r.vm.waiting

\* History::step, line 95: whether the fragment is recorded; is_ok() holds
\* of Ok(true) and of Ok(false)
IsRecorded(redo_amount, r) ==
    redo_amount = 0 /\ ~r.vm.waiting /\ r.res \in { "ok", "done" }

\* History::step, lines 95-100, with the outcome r of vm.step
HistoryStepRecord(h, fragments, redo_amount, r, state, diverged) ==
    HistoryStepAdvance(h,
        IF IsRecorded(redo_amount, r) THEN PushFragment(fragments, state) ELSE fragments,
        redo_amount, r, state, diverged, IsRecorded(redo_amount, r),
        IsRecorded(redo_amount, r) /\ Len(fragments) = HISTORY_CAPACITY)

\* the bool of the Result<bool, String> of VM::step: res "ok" is Ok(true),
\* res "done" is Ok(false), the VM reporting that it is no longer running
Reported(r, running) ==
    IF r.res = "ok" /\ ~running THEN [ r EXCEPT !.res = "done" ] ELSE r

\* History::step, lines 75-86: clear the redo history when the VM has
\* diverged from it, then step the VM
HistoryStepCompare(v, h, k, ovf, running, state, diverged) ==
    HistoryStepRecord(h,
        IF diverged THEN DiscardRedo(h.fragments, h.cursor) ELSE h.fragments,
        IF diverged THEN 0 ELSE RedoAmount(h),
        Reported(VMStep(v, k, ovf), running), state, diverged)

\* a step that takes every step in the past for a divergence
InThePast(h, state) == RedoAmount(h) > 0

\* History::step, line 76
HasDiverged(h, state) == RedoAmount(h) > 0 /\ state # h.fragments[h.cursor + 1]

\* History::step, lines 72-115, with the fragment taken before the step
HistoryStepTaken(v, h, k, ovf, running, state) ==
    HistoryStepCompare(v, h, k, ovf, running, state, HasDiverged(h, state))

\* History::step, lines 72-115, after the event queue is drained
HistoryStepDrained(v, h, k, ovf, running) ==
    HistoryStepTaken(v, h, k, ovf, running, VMHistoryFragment(v))

\* History::step
HistoryStep(v, h, k, ovf, running) ==
    HistoryStepDrained(DrainEventQueue(v), h, k, ovf, running)

\* ------------------------------------------------------------ the state machine

\* the (memory, registers, PC, I, stack, RNG, display) tuple of the interpreter
Tuple(it) ==
    [ memory |-> it.memory, registers |-> it.registers, pc |-> it.pc,
      index |-> it.index, stack |-> it.stack, rng |-> it.rng, display |-> it.display ]

Last(op, res, amt, amt_rewinded, h, state, diverged, recorded, evicted) ==
    [ op |-> op, res |-> res, amt |-> amt, amt_rewinded |-> amt_rewinded,
      cursor |-> h.cursor, fragments |-> h.fragments,
      state |-> state, diverged |-> diverged, recorded |-> recorded,
      evicted |-> evicted ]

\* the round trip a History::step belongs to, l being the call before it:
\* the History::undo that began the trip, what it was called on, and how
\* many of the steps that redo it are left after this one; None when the
\* step redoes nothing
TripOf(l) ==
    IF l.op = "undo" /\ l.res # "panic" /\ l.amt_rewinded > 0
        THEN Some([ left |-> l.amt_rewinded - 1, cursor |-> l.cursor,
                    fragments |-> l.fragments, vm |-> l.pre ])
    ELSE IF l.op = "step" /\ l.res # "panic" /\ IsSome(l.trip) /\ Unwrap(l.trip).left > 0
        THEN Some([ Unwrap(l.trip) EXCEPT !.left = @ - 1 ])
    ELSE None

\* the state after construction, for the programs of the set progs
InitOf(progs) ==
    /\ program \in progs
    /\ kind \in Kinds
    /\ \E seed \in 0 .. MaxSeed : vm = NewVM(Programs[program], seed)
    /\ history = NewHistory
    /\ panicked = FALSE
    /\ trail = << >>
    /\ delivered = 0
    /\ shell = DefaultShell
    /\ threads = NotSpawned
    /\ last = Last("new", "ok", 0, 0, NewHistory, None, FALSE, FALSE, FALSE)

Init == InitOf(DOMAIN Programs)

\* the input poller delivers a key transition
KeyEvent ==
    /\ ~panicked
    /\ Len(vm.event_queue) < MaxQueue
    /\ delivered < MaxEvents
    /\ delivered' = delivered + 1
    /\ \E key \in Keys, pressed \in BOOLEAN :
         vm' = [ vm EXCEPT !.event_queue = Append(@, [ key |-> key, pressed |-> pressed ]) ]
    /\ last' = Last("event", "ok", 0, 0, history, None, FALSE, FALSE, FALSE)
    /\ UNCHANGED << threads, shell, program, kind, history, panicked, trail >>

\* History::step(vm)
Step ==
    /\ ~panicked
    /\ \E ovf \in BOOLEAN, running \in BOOLEAN :
       \E r \in { HistoryStep(vm, history, kind, ovf, running) } :
         LET base == IF r.diverged THEN Truncate(trail, history.cursor) ELSE trail
         IN  /\ Len(r.vm.interp.stack) <= MaxStack
             /\ last' = [ display |-> vm.interp.display,
                           present |-> history.present_fragment,
                           trip |-> TripOf(last) ] @@
                         Last("step", r.res, 0, 0, history, Some(r.state),
                              r.diverged, r.recorded, r.evicted)
             /\ IF r.res = "panic"
                  THEN /\ panicked' = TRUE
                       /\ UNCHANGED << vm, history, trail >>
                  ELSE /\ vm' = r.vm
                       /\ history' = r.history
                       /\ trail' = IF r.recorded
                                     THEN Append(IF r.evicted THEN Tail(base) ELSE base,
                                                 Tuple(vm.interp))
                                     ELSE base
                       /\ UNCHANGED panicked
    /\ UNCHANGED << threads, shell, program, kind, delivered >>

\* History::undo(vm, amt)
Undo ==
    /\ ~panicked
    /\ \E amt \in 0 .. MaxUndo :
       \E r \in { HistoryUndo(vm, history, amt) } :
             /\ last' = [ pre |-> vm ] @@
                         Last("undo", r.res, amt, r.amt_rewinded, history, None,
                              FALSE, FALSE, FALSE)
             /\ IF r.res = "panic"
                  THEN /\ panicked' = TRUE
                       /\ UNCHANGED << vm, history >>
                  ELSE /\ vm' = r.vm
                       /\ history' = r.history
                       /\ UNCHANGED panicked
    /\ UNCHANGED << threads, shell, program, kind, trail, delivered >>

\* History::clear_redo_history()
ClearRedo ==
    /\ ~panicked
    /\ history' = ClearRedoHistory(history)
    /\ trail' = Truncate(trail, history.cursor)
    /\ last' = Last("clear", "ok", 0, 0, history, None, FALSE, FALSE, FALSE)
    /\ UNCHANGED << threads, shell, program, kind, vm, panicked, delivered >>

\* the debugger alone: no input arrives
Next == Step \/ Undo \/ ClearRedo

Spec == Init /\ [][Next]_vars

\* programs run with the input poller attached
InputPrograms == { "Keys", "CallReturn", "Add" }

InitInput == InitOf(InputPrograms)

NextInput == KeyEvent \/ Step \/ Undo \/ ClearRedo

SpecInput == InitInput /\ [][NextInput]_vars

\* ------------------------------------------------------------ properties

\* the instruction of the fragment the last History::undo call reversed first
UndoneOp ==
    Unwrap(last.fragments[last.cursor].interpreter.instruction).op

\* the last call was History::undo(vm, 1) with a fragment to reverse
UndidOne == last.op = "undo" /\ last.amt = 1 /\ last.cursor > 0

\* the VM as it stood when fragment i of the history was taken: the
\* interpreter state of the trail under the input the fragment recorded
Recorded(i) ==
    Restore([ vm EXCEPT !.interp.memory = trail[i].memory,
                        !.interp.registers = trail[i].registers,
                        !.interp.pc = trail[i].pc,
                        !.interp.index = trail[i].index,
                        !.interp.stack = trail[i].stack,
                        !.interp.rng = trail[i].rng,
                        !.interp.display = trail[i].display,
                        !.event_queue = << >> ],
            history.fragments[i])

\* the interpreter state that follows fragment i: the state the next
\* fragment was taken from, or the present
Following(i) ==
    IF i < Len(trail) THEN trail[i + 1] ELSE Tuple(vm.interp)

\* C1: after History::undo has reversed steps, the VM tuple (memory,
\* registers, PC, I, stack, RNG, display) equals the state before the
\* oldest reversed step, whatever I was on the way.
C1_UndoRestoresState ==
    (last.op = "undo" /\ last.amt > 0 /\ last.cursor > 0)
        => (~panicked /\ Tuple(vm.interp) = trail[history.cursor + 1])

C3_CursorWithinHistory ==
    /\ 0 <= history.cursor
    /\ history.cursor <= Len(history.fragments)
    /\ Len(history.fragments) <= HISTORY_CAPACITY
    /\ RedoAmount(history) = Len(history.fragments) - history.cursor

\* C3 witness: a full history with the cursor undone into the past
C3_FullAndRewound ==
    /\ last.op = "undo"
    /\ Len(history.fragments) = HISTORY_CAPACITY
    /\ history.cursor = 1
    /\ RedoAmount(history) = HISTORY_CAPACITY - 1

\* C4: a step taken at cursor c < length whose fragment differs from
\* history[c] leaves length = c + 1: fragments [0..c) are kept, the redo
\* branch is gone and the fragment just taken is the last entry.
C4_TruncationRule ==
    (last.op = "step" /\ last.diverged) =>
        /\ Len(history.fragments) = last.cursor + 1
        /\ history.fragments =
              Append(SubSeq(last.fragments, 1, last.cursor), Unwrap(last.state))
        /\ history.cursor = Len(history.fragments)

\* C4 witness: a diverging step discarded a redo branch of two fragments
C4_BranchDiscarded ==
    /\ last.op = "step"
    /\ last.diverged
    /\ last.cursor > 0
    /\ Len(last.fragments) >= last.cursor + 2

\* C5: a step recorded at the present of a full history evicts exactly the
\* oldest fragment and appends the new one; length stays HISTORY_CAPACITY
\* and the cursor is at the present.
C5_EvictsOldest ==
    ( /\ last.op = "step"
      /\ last.recorded
      /\ last.cursor = Len(last.fragments)
      /\ Len(last.fragments) = HISTORY_CAPACITY ) =>
        /\ history.fragments = Append(Tail(last.fragments), Unwrap(last.state))
        /\ Len(history.fragments) = HISTORY_CAPACITY
        /\ history.cursor = Len(history.fragments)

\* C5 witness: a step was recorded at the present of a full history
C5_RecordedAtCapacity ==
    /\ last.op = "step"
    /\ last.recorded
    /\ last.cursor = HISTORY_CAPACITY
    /\ Len(last.fragments) = HISTORY_CAPACITY
    /\ last.fragments[1] # last.fragments[2]

\* C6: undoing a Display step restores memory, registers, PC, I, stack,
\* RNG and display.
C6_DisplayUndone ==
    (UndidOne /\ UndoneOp = "Display")
        => (~panicked /\ Tuple(vm.interp) = trail[history.cursor + 1])

\* C7: undoing a ClearScreen or GenerateRandom step restores the full
\* state, the display and the RNG included.
C7_ClearAndRandomUndone ==
    (UndidOne /\ UndoneOp \in { "ClearScreen", "GenerateRandom" })
        => (~panicked /\ Tuple(vm.interp) = trail[history.cursor + 1])

\* C8 as stated: for 22 04 00 00 00 EE, after two steps PC = 0x200 and the
\* stack is empty; after undoing them PC = 0x200 and the stack is empty.
C8_ReturnsToCallSite ==
    program = "CallReturn" =>
        /\ history.cursor = 2 => vm.interp.pc = 512 /\ vm.interp.stack = << >>
        /\ history.cursor = 0 => vm.interp.pc = 512 /\ vm.interp.stack = << >>

\* C8 amended: for 22 04 00 00 00 EE, after two steps PC = 0x202 (the
\* instruction after the call) and the stack is empty; between the two
\* PC = 0x204 and the stack holds 0x202; with both undone PC = 0x200 and
\* the stack is empty.
C8_ReturnsPastCall ==
    program = "CallReturn" =>
        /\ history.cursor = 2 => vm.interp.pc = 514 /\ vm.interp.stack = << >>
        /\ history.cursor = 1 => vm.interp.pc = 516 /\ vm.interp.stack = << 514 >>
        /\ history.cursor = 0 => vm.interp.pc = 512 /\ vm.interp.stack = << >>

\* C8 witness: the call and the return were stepped and both undone
C8_SteppedAndUndone ==
    /\ program = "CallReturn"
    /\ last.op = "undo"
    /\ last.cursor = 2
    /\ history.cursor = 0

\* C9 as stated: 0 <= PC < 4096 and PC is even.
C9_PcEvenInMemory ==
    /\ 0 <= vm.interp.pc
    /\ vm.interp.pc < PROGRAM_MEMORY_SIZE
    /\ vm.interp.pc % 2 = 0

\* C9 amended: 0 <= PC <= 4098, the address a skip at 0xFFE leaves; PC
\* need not be even.
C9_PcBounded ==
    /\ 0 <= vm.interp.pc
    /\ vm.interp.pc <= PROGRAM_MEMORY_SIZE + 2

\* C9 witness: the skip at 0xFFE, reached through the odd address 0x205,
\* has left PC at 4098
C9_PcPastMemory ==
    /\ program = "Edge"
    /\ last.op = "step"
    /\ vm.interp.pc = PROGRAM_MEMORY_SIZE + 2

\* C10: the return stack holds at most 16 entries.
C10_StackAtMost16 == Len(vm.interp.stack) <= 16

\* ------------------------------------------------------------ the decoder alone

\* the state before anything is decoded: two bytes b0, b1 of memory,
\* most significant first
InitDecode ==
    /\ program = "Add"
    /\ kind = "COSMACVIP"
    /\ vm = NewVM(Programs[program], 0)
    /\ history = NewHistory
    /\ panicked = FALSE
    /\ trail = << >>
    /\ delivered = 0
    /\ shell = DefaultShell
    /\ threads = NotSpawned
    /\ \E b0 \in 0 .. 255, b1 \in 0 .. 255 :
         last = [ op |-> "bytes", b0 |-> b0, b1 |-> b1 ]

\* Instruction::try_from(InstructionParameters::from([b0, b1]))
DecodeWord ==
    /\ last.op = "bytes"
    /\ last' = [ op |-> "decode", b0 |-> last.b0, b1 |-> last.b1,
                 inst |-> Decode(ParametersFromBytes(last.b0, last.b1)) ]
    /\ UNCHANGED << threads, shell, program, kind, vm, history, panicked, trail, delivered >>

NextDecode == DecodeWord

SpecDecode == InitDecode /\ [][NextDecode]_vars

\* ------------------------------------------------------------ properties of the decoder

\* the big-endian word of the bytes last decoded
Word == last.b0 * 256 + last.b1

\* nibble i of a 16-bit word, 0 the least significant
Nibble(w, i) == (w \div (16 ^ i)) % 16

\* the decoding table: the instruction the table assigns to the word w, None
\* when w matches no encoding of the table
TableEntry(w) ==
    LET op  == Nibble(w, 3)
        x   == Nibble(w, 2)
        y   == Nibble(w, 1)
        n   == Nibble(w, 0)
        nn  == w % 256
        nnn == w % 4096
    IN  CASE w = 224 -> Some(Inst("ClearScreen", 0, 0, 0))
          [] w = 238 -> Some(Inst("SubroutineReturn", 0, 0, 0))
          [] op = 1 -> Some(Inst("Jump", nnn, 0, 0))
          [] op = 2 -> Some(Inst("CallSubroutine", nnn, 0, 0))
          [] op = 3 -> Some(Inst("SkipIfEqualsConstant", x, nn, 0))
          [] op = 4 -> Some(Inst("SkipIfNotEqualsConstant", x, nn, 0))
          [] op = 5 /\ n = 0 -> Some(Inst("SkipIfEquals", x, y, 0))
          [] op = 6 -> Some(Inst("SetConstant", x, nn, 0))
          [] op = 7 -> Some(Inst("AddConstant", x, nn, 0))
          [] op = 8 /\ n = 0 -> Some(Inst("Set", x, y, 0))
          [] op = 8 /\ n = 1 -> Some(Inst("Or", x, y, 0))
          [] op = 8 /\ n = 2 -> Some(Inst("And", x, y, 0))
          [] op = 8 /\ n = 3 -> Some(Inst("Xor", x, y, 0))
          [] op = 8 /\ n = 4 -> Some(Inst("Add", x, y, 0))
          [] op = 8 /\ n = 5 -> Some(Inst("Sub", x, y, 1))
          [] op = 8 /\ n = 7 -> Some(Inst("Sub", x, y, 0))
          [] op = 8 /\ n = 6 -> Some(Inst("Shift", x, y, 1))
          [] op = 8 /\ n = 14 -> Some(Inst("Shift", x, y, 0))
          [] op = 9 /\ n = 0 -> Some(Inst("SkipIfNotEquals", x, y, 0))
          [] op = 10 -> Some(Inst("SetIndex", nnn, 0, 0))
          [] op = 11 -> Some(Inst("JumpWithOffset", nnn, x, 0))
          [] op = 12 -> Some(Inst("GenerateRandom", x, nn, 0))
          [] op = 13 -> Some(Inst("Display", x, y, n))
          [] op = 14 /\ nn = 158 -> Some(Inst("SkipIfKeyDown", x, 0, 0))
          [] op = 14 /\ nn = 161 -> Some(Inst("SkipIfKeyNotDown", x, 0, 0))
          [] op = 15 /\ nn = 7 -> Some(Inst("GetDelayTimer", x, 0, 0))
          [] op = 15 /\ nn = 10 -> Some(Inst("GetKey", x, 0, 0))
          [] op = 15 /\ nn = 21 -> Some(Inst("SetDelayTimer", x, 0, 0))
          [] op = 15 /\ nn = 24 -> Some(Inst("SetSoundTimer", x, 0, 0))
          [] op = 15 /\ nn = 30 -> Some(Inst("AddToIndex", x, 0, 0))
          [] op = 15 /\ nn = 41 -> Some(Inst("SetIndexToHexChar", x, 0, 0))
          [] op = 15 /\ nn = 51 -> Some(Inst("StoreDecimal", x, 0, 0))
          [] op = 15 /\ nn = 85 -> Some(Inst("Store", x, 0, 0))
          [] op = 15 /\ nn = 101 -> Some(Inst("Load", x, 0, 0))
          [] OTHER -> None

\* the inverse table: the canonical encoding of an instruction
Encode(i) ==
    CASE i.op = "ClearScreen" -> 224
      [] i.op = "SubroutineReturn" -> 238
      [] i.op = "Jump" -> 4096 + i.a
      [] i.op = "CallSubroutine" -> 2 * 4096 + i.a
      [] i.op = "SkipIfEqualsConstant" -> 3 * 4096 + i.a * 256 + i.b
      [] i.op = "SkipIfNotEqualsConstant" -> 4 * 4096 + i.a * 256 + i.b
      [] i.op = "SkipIfEquals" -> 5 * 4096 + i.a * 256 + i.b * 16
      [] i.op = "SetConstant" -> 6 * 4096 + i.a * 256 + i.b
      [] i.op = "AddConstant" -> 7 * 4096 + i.a * 256 + i.b
      [] i.op = "Set" -> 8 * 4096 + i.a * 256 + i.b * 16
      [] i.op = "Or" -> 8 * 4096 + i.a * 256 + i.b * 16 + 1
      [] i.op = "And" -> 8 * 4096 + i.a * 256 + i.b * 16 + 2
      [] i.op = "Xor" -> 8 * 4096 + i.a * 256 + i.b * 16 + 3
      [] i.op = "Add" -> 8 * 4096 + i.a * 256 + i.b * 16 + 4
      [] i.op = "Sub" -> 8 * 4096 + i.a * 256 + i.b * 16 + (IF i.c = 1 THEN 5 ELSE 7)
      [] i.op = "Shift" -> 8 * 4096 + i.a * 256 + i.b * 16 + (IF i.c = 1 THEN 6 ELSE 14)
      [] i.op = "SkipIfNotEquals" -> 9 * 4096 + i.a * 256 + i.b * 16
      [] i.op = "SetIndex" -> 10 * 4096 + i.a
      [] i.op = "JumpWithOffset" -> 11 * 4096 + i.a
      [] i.op = "GenerateRandom" -> 12 * 4096 + i.a * 256 + i.b
      [] i.op = "Display" -> 13 * 4096 + i.a * 256 + i.b * 16 + i.c
      [] i.op = "SkipIfKeyDown" -> 14 * 4096 + i.a * 256 + 158
      [] i.op = "SkipIfKeyNotDown" -> 14 * 4096 + i.a * 256 + 161
      [] i.op = "GetDelayTimer" -> 15 * 4096 + i.a * 256 + 7
      [] i.op = "GetKey" -> 15 * 4096 + i.a * 256 + 10
      [] i.op = "SetDelayTimer" -> 15 * 4096 + i.a * 256 + 21
      [] i.op = "SetSoundTimer" -> 15 * 4096 + i.a * 256 + 24
      [] i.op = "AddToIndex" -> 15 * 4096 + i.a * 256 + 30
      [] i.op = "SetIndexToHexChar" -> 15 * 4096 + i.a * 256 + 41
      [] i.op = "StoreDecimal" -> 15 * 4096 + i.a * 256 + 51
      [] i.op = "Store" -> 15 * 4096 + i.a * 256 + 85
      [] i.op = "Load" -> 15 * 4096 + i.a * 256 + 101

\* C11: every word that matches no encoding of the decoding table, the
\* unmentioned nibbles being the literal values shown, is rejected with a
\* decode error.
C11_NonCanonicalRejected ==
    (last.op = "decode" /\ TableEntry(Word) = None) => last.inst = None

\* C12: for every word the decoder returns an error or exactly the
\* instruction the table assigns to the word, its operands being the bit
\* fields of the big-endian word, and re-encoding the instruction gives the
\* word back.
C12_DecodesTableEntry ==
    (last.op = "decode" /\ last.inst # None) =>
        /\ last.inst = TableEntry(Word)
        /\ Encode(Unwrap(last.inst)) = Word

\* ------------------------------------------------------------ the interpreter alone

\* register contents the programs below are started with
ByteSamples == { 0, 1, 128, 255 }

\* a register file: Vx = vx, Vy = vy, every other register Vi = 16 + i
RegisterFile(x, vx, y, vy) ==
    [ i \in 0 .. 15 |-> IF i = x THEN vx ELSE IF i = y THEN vy ELSE 16 + i ]

\* the program made of the one instruction word w
OneWord(w) == Image(<< w \div 256, w % 256 >>)

\* 8xy4, 8xy5, 8xy7, 8xy6, 8xyE for every pair of registers: Add, both
\* Subs, both Shifts
ArithWords ==
    { 8 * 4096 + x * 256 + y * 16 + n :
        x \in 0 .. 15, y \in 0 .. 15, n \in { 4, 5, 6, 7, 14 } }

\* Fx1E, Fx29 for every register: AddToIndex, SetIndexToHexChar
IndexWords == { 15 * 4096 + x * 256 + nn : x \in 0 .. 15, nn \in { 30, 41 } }

\* F055 F155 F255 FF55, F065 F165 F265 FF65, F033, D010 D011 D012 D01F,
\* B300 BF01 BFFF, F01E: Store, Load, StoreDecimal, Display, JumpWithOffset,
\* AddToIndex
BoundWords ==
    { 61525, 61781, 62037, 65365, 61541, 61797, 62053, 65381, 61491,
      53264, 53265, 53266, 53279, 45824, 48897, 49151, 61470 }

\* values of I around the font, the program area and both ends of memory
\* and of the 16-bit range
IndexSamples == { 80, 768, 4080, 4081, 4093, 4094, 4095, 4096, 4097, 65535 }

\* 0000, 5001, 8008, 9001, E000, F0FF: words outside the decoding table
BadWords == { 0, 20481, 32776, 36865, 57344, 61695 }

\* the program counters of the programs started near the end of memory
EdgeCounters == 4093 .. 4098

\* return stacks a 00EE is executed with
ReturnStacks == { << >>, << 768 >>, << 768, 516 >> }

\* E09E E0A1 F00A, E59E E5A1 F50A: SkipIfKeyDown, SkipIfKeyNotDown, GetKey
KeyWords == { 57502, 57505, 61450, 58782, 58785, 62730 }

\* what the driver writes to the input of the interpreter between steps
KeyInputs ==
    { [ delay_timer |-> 0, down_keys |-> keys,
        just_pressed_key |-> pressed, just_released_key |-> released ] :
        keys \in { 0, 1, 2, 32768, 65535 },
        pressed \in { None, Some(1) },
        released \in { None, Some(2) } }

\* an interpreter in the middle of a run of the program data
Running(data, pc, index, stack, registers) ==
    [ NewInterpreter(data, 0) EXCEPT
        !.pc = pc, !.index = index, !.stack = stack, !.registers = registers ]

\* the interpreters the steps below are applied to, by family
Subjects(family) ==
    CASE family = "Arith" ->
            { Running(OneWord(w), PROGRAM_STARTING_ADDRESS, 0, << >>,
                      RegisterFile((w \div 256) % 16, vx, (w \div 16) % 16, vy)) :
                w \in ArithWords, vx \in ByteSamples, vy \in ByteSamples }
      [] family = "Index" ->
            { Running(OneWord(w), PROGRAM_STARTING_ADDRESS, index, << >>,
                      RegisterFile((w \div 256) % 16, vx, 16, 0)) :
                w \in IndexWords, vx \in ByteSamples, index \in IndexSamples }
      [] family = "Bound" ->
            { Running(OneWord(w), PROGRAM_STARTING_ADDRESS, index, << >>,
                      RegisterFile((w \div 256) % 16, vx, (w \div 16) % 16, vy)) :
                w \in BoundWords, vx \in ByteSamples, vy \in ByteSamples,
                index \in IndexSamples }
      [] family = "Bad" ->
            { Running(OneWord(w), PROGRAM_STARTING_ADDRESS, 768, << 516 >>,
                      RegisterFile(0, vx, 1, 1)) :
                w \in BadWords, vx \in ByteSamples }
      [] family = "Edge" ->
            { Running(ProgEdge, pc, 768, << 516 >>, RegisterFile(0, vx, 1, 1)) :
                pc \in EdgeCounters, vx \in ByteSamples }
      [] family = "Return" ->
            { Running(OneWord(238), PROGRAM_STARTING_ADDRESS, 768, stack,
                      RegisterFile(0, 1, 1, 1)) :
                stack \in ReturnStacks }
      [] family = "Store" ->
            { NewInterpreter(ProgStore, 0) }
      [] family = "Requests" ->
            { Running(ProgRequests, PROGRAM_STARTING_ADDRESS, index, << >>,
                      RegisterFile(0, vx, 1, vy)) :
                vx \in ByteSamples, vy \in ByteSamples, index \in { 80, 4096 } }
      [] family = "Keys" ->
            { [ Running(OneWord(w), PROGRAM_STARTING_ADDRESS, 768, << >>,
                        RegisterFile((w \div 256) % 16, vx, 16, 0))
                  EXCEPT !.input = input ] :
                w \in KeyWords, vx \in ByteSamples \cup { 15, 16 }, input \in KeyInputs }

Families ==
    { "Arith", "Index", "Bound", "Bad", "Edge", "Return", "Store", "Keys", "Requests" }

\* an interpreter of one of the families, about to be stepped
InitExec ==
    /\ program \in Families
    /\ kind \in Kinds
    /\ \E it \in Subjects(program) :
         vm = [ NewVM(it.program, 0) EXCEPT !.interp = it ]
    /\ history = NewHistory
    /\ panicked = FALSE
    /\ trail = << >>
    /\ delivered = 0
    /\ shell = DefaultShell
    /\ threads = NotSpawned
    /\ last = [ op |-> "loaded" ]

\* Interpreter::step
ExecStep ==
    /\ ~panicked
    /\ \E ovf \in BOOLEAN :
       \E r \in { InterpreterStep(vm.interp, kind, ovf) } :
         /\ last' = [ op |-> "exec", pre |-> vm.interp, res |-> r.res ]
         /\ IF r.res = "panic"
              THEN /\ panicked' = TRUE
                   /\ UNCHANGED vm
              ELSE /\ vm' = [ vm EXCEPT !.interp = r.it ]
                   /\ UNCHANGED panicked
    /\ UNCHANGED << threads, shell, program, kind, history, trail, delivered >>

\* Interpreter::input_mut: the driver writes the input of the next step
Deliver ==
    /\ ~panicked
    /\ program = "Keys"
    /\ \E input \in KeyInputs : vm' = [ vm EXCEPT !.interp.input = input ]
    /\ last' = [ op |-> "input" ]
    /\ UNCHANGED << threads, shell, program, kind, history, panicked, trail, delivered >>

NextExec == ExecStep \/ Deliver

SpecExec == InitExec /\ [][NextExec]_vars

\* ------------------------------------------------------------ properties of the interpreter

\* the instruction the last Interpreter::step fetched and decoded, None when
\* the fetch or the decoding failed
Executed == FetchDecode(last.pre)

\* the last Interpreter::step executed the instruction named op and returned Ok
Did(op) ==
    /\ last.op = "exec"
    /\ last.res = "ok"
    /\ IsSome(Executed)
    /\ Unwrap(Executed).op = op

\* C13: a failed Interpreter::step leaves PC, I, registers, memory, stack,
\* RNG and display as they were before the step.
C13_FailedStepChangesNothing ==
    (last.op = "exec" /\ last.res = "err") => Tuple(vm.interp) = Tuple(last.pre)

\* an instruction that stores from non-zero registers failed in execution
C13_ExecutionFailed ==
    /\ last.op = "exec"
    /\ last.res = "err"
    /\ IsSome(Executed)
    /\ Unwrap(Executed).op = "Store"
    /\ last.pre.registers[0] = 255

\* the last Interpreter::step failed on an address bound: the fetch failed,
\* or the instruction was decoded and its execution failed
AddressBoundError ==
    /\ last.op = "exec"
    /\ last.res = "err"
    /\ (Fetch(last.pre) = None \/ IsSome(Executed))

\* the rows of a sprite of height n counted as n
RowsAsGiven(n) == n

\* the rows of a sprite of height n counted as at least one
RowsAtLeastOne(n) == IF n >= 1 THEN n ELSE 1

\* the cases in which a step of the interpreter it fails on an address
\* bound, a Display of height n reading Rows(n) rows
BoundCase(it, k, Rows(_)) ==
    \/ it.pc >= 4095
    \/ /\ IsSome(FetchDecode(it))
       /\ LET i == Unwrap(FetchDecode(it))
              offset == IF k = "COSMACVIP" THEN it.registers[0] ELSE it.registers[i.b]
          IN  \/ i.op \in { "Load", "Store" } /\ it.index + i.a >= 4096
              \/ i.op = "StoreDecimal" /\ it.index + 2 >= 4096
              \/ i.op = "Display" /\ it.index + Rows(i.c) - 1 >= 4096
              \/ i.op = "JumpWithOffset" /\ i.a + offset >= 4096

\* C14 as stated: a step fails on an address bound exactly when the fetch
\* is at PC >= 4095, or Load(x)/Store(x) has I + x >= 4096, or StoreDecimal
\* has I + 2 >= 4096, or Display(x, y, n) has I + n - 1 >= 4096, or
\* JumpWithOffset(nnn, x) has nnn + offset >= 4096; PC is then not advanced.
C14_BoundErrorsAsStated ==
    last.op = "exec" =>
        /\ AddressBoundError <=> BoundCase(last.pre, kind, RowsAsGiven)
        /\ AddressBoundError => vm.interp.pc = last.pre.pc

\* C14, amended: as stated, with Display(x, y, n) failing when
\* I + max(n, 1) - 1 >= 4096.
C14_BoundErrors ==
    last.op = "exec" =>
        /\ AddressBoundError <=> BoundCase(last.pre, kind, RowsAtLeastOne)
        /\ AddressBoundError => vm.interp.pc = last.pre.pc

\* a Display of no rows failed with I = 4096
C14_EmptySpriteAtEnd ==
    /\ AddressBoundError
    /\ IsSome(Executed)
    /\ Unwrap(Executed).op = "Display"
    /\ Unwrap(Executed).c = 0
    /\ last.pre.index = 4096


\* C15: a successful Store(x) copies V0..Vx to memory[I..I+x] and changes no
\* other byte of memory and no register; a successful Load(x) copies
\* memory[I..I+x] to V0..Vx and changes no byte of memory and no register
\* above Vx; afterwards I is I + x + 1 under COSMAC-VIP and unchanged under
\* CHIP-48. After A3 00 60 AB 61 CD F1 55, memory[0x300] = 0xAB,
\* memory[0x301] = 0xCD and I = 0x302 under COSMAC-VIP, 0x300 under CHIP-48.
\* Memory is compared at every address either state holds a written byte
\* for and at I..I+x: at the others both hold the byte of the loaded image.
C15_StoreLoadFrame ==
    LET pre  == last.pre
        post == vm.interp
        x    == Unwrap(Executed).a
        span == pre.index .. (pre.index + x)
        held == DOMAIN pre.memory \cup DOMAIN post.memory \cup span
        moved == IF kind = "COSMACVIP" THEN pre.index + x + 1 ELSE pre.index
    IN  /\ Did("Store") =>
              /\ \A a \in held :
                    Mem(post, a) = IF a \in span THEN pre.registers[a - pre.index]
                                                 ELSE Mem(pre, a)
              /\ post.registers = pre.registers
              /\ post.index = moved
        /\ Did("Load") =>
              /\ \A i \in 0 .. 15 :
                    post.registers[i] = IF i <= x THEN Mem(pre, pre.index + i)
                                                  ELSE pre.registers[i]
              /\ post.memory = pre.memory
              /\ post.index = moved
        /\ (program = "Store" /\ Did("Store") /\ pre.pc = 518) =>
              /\ Mem(post, 768) = 171
              /\ Mem(post, 769) = 205
              /\ post.index = IF kind = "COSMACVIP" THEN 770 ELSE 768

\* the four instructions A3 00 60 AB 61 CD F1 55 have been executed under
\* COSMAC-VIP
C15_ExampleStored ==
    /\ program = "Store"
    /\ kind = "COSMACVIP"
    /\ Did("Store")
    /\ last.pre.pc = 518
    /\ vm.interp.pc = 520


\* C16: for every pair of registers x, y: after Add(x, y), VF = 1 if the
\* pre-step Vx + Vy >= 256 and VF = 0 otherwise; after Sub(x, y,
\* vx_minus_vy), VF = 0 iff the subtraction (Vx - Vy when vx_minus_vy, else
\* Vy - Vx) borrowed; for x # 15, Vx holds the result modulo 256.
C16_ArithmeticFlags ==
    LET pre  == last.pre.registers
        post == vm.interp.registers
        i    == Unwrap(Executed)
        lhs  == IF i.c = 1 THEN pre[i.a] ELSE pre[i.b]
        rhs  == IF i.c = 1 THEN pre[i.b] ELSE pre[i.a]
    IN  /\ Did("Add") =>
              /\ post[VFLAG] = IF pre[i.a] + pre[i.b] >= 256 THEN 1 ELSE 0
              /\ i.a # VFLAG => post[i.a] = (pre[i.a] + pre[i.b]) % 256
        /\ Did("Sub") =>
              /\ post[VFLAG] = 0 <=> lhs < rhs
              /\ post[VFLAG] \in { 0, 1 }
              /\ i.a # VFLAG => post[i.a] = (lhs - rhs + 256) % 256

\* an Add into VF itself carried
C16_AddIntoFlagCarried ==
    /\ Did("Add")
    /\ Unwrap(Executed).a = VFLAG
    /\ Unwrap(Executed).b = 3
    /\ last.pre.registers[VFLAG] = 255

\* C17: AddToIndex(x) sets I to (I + Vx) mod 0x10000 and leaves every
\* register, VF included, unchanged, also when I + Vx >= 0x10000.
C17_AddToIndexWraps ==
    Did("AddToIndex") =>
        /\ vm.interp.index =
              (last.pre.index + last.pre.registers[Unwrap(Executed).a]) % 65536
        /\ vm.interp.registers = last.pre.registers

\* an AddToIndex went past 0xFFFF
C17_IndexWrapped ==
    /\ Did("AddToIndex")
    /\ last.pre.index = 65535
    /\ last.pre.registers[Unwrap(Executed).a] = 255
    /\ vm.interp.index = 254

\* C18: executing SubroutineReturn with an empty return stack is not
\* reported as an error of the step: the interpreter aborts, no Err is
\* returned and nothing is executed afterwards.
C18_EmptyReturnAborts ==
    (/\ last.op = "exec"
     /\ IsSome(Executed)
     /\ Unwrap(Executed).op = "SubroutineReturn"
     /\ last.pre.stack = << >>)
        => /\ last.res = "panic"
           /\ panicked
           /\ ~ENABLED NextExec

\* a SubroutineReturn was executed with nothing on the stack
C18_ReturnedFromNothing ==
    /\ last.op = "exec"
    /\ IsSome(Executed)
    /\ Unwrap(Executed).op = "SubroutineReturn"
    /\ last.pre.stack = << >>

\* ------------------------------------------------------------ the interpreter tick of main

\* main, line 107: CHIP8VM { active: true, interp, ..Default::default() }.
\* The timers are kept in whole counts of the 60 Hz clock.
CHIP8VM(data) ==
    [ active       |-> TRUE,
      interp       |-> NewInterpreter(data, 0),
      interp_input |-> DefaultInput,
      delay_timer  |-> 0,
      sound_timer  |-> 0 ]

\* what vm.keyboard.update() may return: the keys that are down and at most
\* one key transition (key, is_pressed)
KeyboardUpdates ==
    { << keys, change >> :
        keys \in { 0, 2 },
        change \in { None } \cup { Some(<< key, is_pressed >>) :
                                      key \in Keys, is_pressed \in BOOLEAN } }

\* the counts of the 60 Hz clock that may have elapsed since the last tick
Elapsed == { 0, 1 }

\* the tick so far: the VM, the parts of the tick done in the order they
\* were done, the input the interpreter stepped with, the step's outcome
Entered(v) == [ vm |-> v, order |-> << >>, seen |-> DefaultInput, res |-> "ok" ]

\* main, lines 123-130: timer update
UpdateTimers(t, elapsed) ==
    [ t EXCEPT !.vm.sound_timer = IF elapsed = 1 THEN TimerTick(@) ELSE @,
               !.vm.delay_timer = IF elapsed = 1 THEN TimerTick(@) ELSE @,
               !.order = Append(@, "timer update") ]

\* main, lines 132-146: the input of the interpreter takes the delay timer,
\* the keys that are down and the transition the keyboard reports
UpdateInput(t, update) ==
    LET change == update[2]
        pressed == IsSome(change) /\ Unwrap(change)[2]
        released == IsSome(change) /\ ~Unwrap(change)[2]
    IN  [ t EXCEPT
            !.vm.interp_input =
                [ delay_timer |-> t.vm.delay_timer,
                  down_keys |-> update[1],
                  just_pressed_key |-> IF pressed THEN Some(Unwrap(change)[1]) ELSE @.just_pressed_key,
                  just_released_key |-> IF released THEN Some(Unwrap(change)[1]) ELSE @.just_released_key ],
            !.order = Append(@, "snapshot input") ]

\* main, line 149, on the outcome s of the step
Stepped(t, s) ==
    [ t EXCEPT !.vm.interp = s.it, !.res = s.res, !.seen = t.vm.interp_input,
               !.order = Append(@, "interpreter step") ]

\* main, line 149: vm.interp.step(input)
StepInterp(t, k, ovf) ==
    Stepped(t, InterpreterStep([ t.vm.interp EXCEPT !.input = t.vm.interp_input ], k, ovf))

\* main, lines 151-158: the request of the step is applied
ApplyOutput(t) ==
    [ t EXCEPT !.vm = ApplyRequest(@, t.vm.interp.request),
               !.order = Append(@, "apply request") ]

\* a tick that leaves the released key in the input
ClearPressedOnly(t) ==
    [ t EXCEPT !.vm.interp_input.just_pressed_key = None,
               !.order = Append(@, "clear flags") ]

\* main, lines 165-167: clear ephemeral inputs
ClearEphemeral(t) ==
    [ t EXCEPT !.vm.interp_input.just_pressed_key = None,
               !.vm.interp_input.just_released_key = None,
               !.order = Append(@, "clear flags") ]

\* a tick that takes the input before it updates the timers
TickInputFirst(v, elapsed, update, k, ovf) ==
    ClearEphemeral(ApplyOutput(StepInterp(
        UpdateTimers(UpdateInput(Entered(v), update), elapsed), k, ovf)))

\* main, lines 116-169: one run of the closure of the interp interval
TickBody(v, elapsed, update, k, ovf) ==
    ClearEphemeral(ApplyOutput(StepInterp(
        UpdateInput(UpdateTimers(Entered(v), elapsed), update), k, ovf)))

\* programs run by main
TickPrograms == { "Keys", "Add" }

\* main, line 107
InitTick ==
    /\ program \in TickPrograms
    /\ kind \in Kinds
    /\ vm = CHIP8VM(Programs[program])
    /\ history = NewHistory
    /\ panicked = FALSE
    /\ trail = << >>
    /\ delivered = 0
    /\ shell = DefaultShell
    /\ threads = NotSpawned
    /\ last = [ op |-> "main" ]

\* the closure of the interp interval runs once, holding the lock on the VM
Tick ==
    /\ ~panicked
    /\ vm.active
    /\ \E elapsed \in Elapsed, update \in KeyboardUpdates, ovf \in BOOLEAN :
       \E t \in { TickBody(vm, elapsed, update, kind, ovf) } :
         /\ last' = [ op |-> "tick", pre |-> vm, elapsed |-> elapsed,
                      change |-> update[2], order |-> t.order, seen |-> t.seen,
                      res |-> t.res ]
         /\ IF t.res = "panic"
              THEN /\ panicked' = TRUE
                   /\ UNCHANGED vm
              ELSE /\ vm' = t.vm
                   /\ UNCHANGED panicked
    /\ UNCHANGED << threads, shell, program, kind, history, trail, delivered >>

NextTick == Tick

SpecTick == InitTick /\ [][NextTick]_vars

\* ------------------------------------------------------------ properties of the tick

\* the delay timer after the timer update of the last tick
UpdatedDelay ==
    IF last.elapsed = 1 THEN TimerTick(last.pre.delay_timer) ELSE last.pre.delay_timer

\* the last tick ran to its end
Ticked == last.op = "tick" /\ last.res # "panic"

\* the request of the step of the last tick, applied after the step
RequestApplied ==
    LET request == vm.interp.request
    IN  (IsSome(request) /\ Unwrap(request).tag = "SetDelayTimer")
            => vm.delay_timer = Unwrap(request).v

\* C19 as stated: in every interpreter tick the order is: snapshot input,
\* timer update, interpreter step, apply the returned request, clear the
\* ephemeral input flags. The step sees the delay timer as the snapshot
\* took it, before the update.
C19_TickOrderAsStated ==
    Ticked =>
        /\ last.order = << "snapshot input", "timer update", "interpreter step",
                           "apply request", "clear flags" >>
        /\ last.seen.delay_timer = last.pre.delay_timer
        /\ RequestApplied

\* C19, amended: in every interpreter tick the order is: timer update,
\* snapshot input, interpreter step, apply the returned request, clear the
\* ephemeral input flags. The step sees the delay timer after the update.
C19_TickOrder ==
    Ticked =>
        /\ last.order = << "timer update", "snapshot input", "interpreter step",
                           "apply request", "clear flags" >>
        /\ last.seen.delay_timer = UpdatedDelay
        /\ RequestApplied

\* a tick in which the delay timer counted down from 1, and the step read 0
C19_TimerCountedBeforeStep ==
    /\ Ticked
    /\ last.pre.delay_timer = 1
    /\ last.elapsed = 1
    /\ last.pre.interp.pc = 518
    /\ vm.interp.registers[1] = 0

\* C20: the transition delivered to a tick is in the input of the step of
\* that tick, and just_pressed_key and just_released_key are both None when
\* the tick ends, so no later step sees it.
C20_TransitionSeenOnce ==
    Ticked =>
        /\ vm.interp_input.just_pressed_key = None
        /\ vm.interp_input.just_released_key = None
        /\ last.seen.just_pressed_key =
              IF IsSome(last.change) /\ Unwrap(last.change)[2]
                  THEN Some(Unwrap(last.change)[1]) ELSE None
        /\ last.seen.just_released_key =
              IF IsSome(last.change) /\ ~Unwrap(last.change)[2]
                  THEN Some(Unwrap(last.change)[1]) ELSE None

\* a release of key 1 was delivered to a tick whose step was a GetKey under
\* COSMAC-VIP, which took the key
C20_ReleaseTaken ==
    /\ Ticked
    /\ kind = "COSMACVIP"
    /\ last.change = Some(<< 1, FALSE >>)
    /\ last.pre.interp.pc = 512
    /\ vm.interp.pc = 514
    /\ vm.interp.registers[0] = 1
    /\ vm.interp_input.just_released_key = None


\* the source register of the Shift the last step executed
ShiftSource ==
    IF kind = "COSMACVIP" THEN last.pre.registers[Unwrap(Executed).b]
                          ELSE last.pre.registers[Unwrap(Executed).a]

\* C26: for every x, y, Shift(x, y, right) takes its source from Vy under
\* COSMAC-VIP and from Vx under CHIP-48; afterwards VF is the bit shifted
\* out and Vx is the source shifted by one position modulo 256.
C26_ShiftFlags ==
    Did("Shift") =>
        /\ vm.interp.registers[VFLAG] =
              IF Unwrap(Executed).c = 1 THEN ShiftSource % 2 ELSE ShiftSource \div 128
        /\ vm.interp.registers[Unwrap(Executed).a] =
              IF Unwrap(Executed).c = 1 THEN ShiftSource \div 2
                                        ELSE (ShiftSource * 2) % 256

\* the last step fetched a SkipIfKeyDown or a SkipIfKeyNotDown
TestedKey ==
    /\ last.op = "exec"
    /\ IsSome(Executed)
    /\ Unwrap(Executed).op \in { "SkipIfKeyDown", "SkipIfKeyNotDown" }

\* C27: for every Vx, SkipIfKeyDown(x) skips iff bit (Vx & 0xF) of
\* down_keys is set and SkipIfKeyNotDown(x) iff it is clear; neither
\* faults.
C27_KeySkips ==
    TestedKey =>
        LET vx  == last.pre.registers[Unwrap(Executed).a]
            set == Bit(last.pre.input.down_keys, vx % 16) = 1
            skips == IF Unwrap(Executed).op = "SkipIfKeyDown" THEN set ELSE ~set
        IN  /\ last.res = "ok"
            /\ vm.interp.pc = last.pre.pc + (IF skips THEN 4 ELSE 2)

\* C28: for every Vx, SetIndexToHexChar(x) sets I to 0x50 + 5 * (Vx & 0x0F),
\* the first byte of one of the 16 glyphs in 0x050..0x09F.
C28_IndexAtGlyph ==
    Did("SetIndexToHexChar") =>
        /\ vm.interp.index =
              FONT_STARTING_ADDRESS
                + FONT_CHAR_DATA_SIZE * (last.pre.registers[Unwrap(Executed).a] % 16)
        /\ vm.interp.index >= 80
        /\ vm.interp.index <= 159

\* the last step fetched a GetKey
GotKey ==
    /\ last.op = "exec"
    /\ IsSome(Executed)
    /\ Unwrap(Executed).op = "GetKey"

\* the key the variant selects from the input of the last step
SelectedKey ==
    IF kind = "COSMACVIP" THEN last.pre.input.just_released_key
                          ELSE last.pre.input.just_pressed_key

\* C29: while the key the variant selects is absent, a step of GetKey(x)
\* leaves PC, registers, I, memory and stack unchanged, so the same GetKey
\* is executed by the next step; when the key is present, Vx receives its
\* code and PC advances by 2.
C29_GetKeyBlocks ==
    GotKey =>
        /\ last.res = "ok"
        /\ IF SelectedKey = None
             THEN /\ Tuple(vm.interp) = Tuple(last.pre)
                  /\ FetchDecode(vm.interp) = Executed
             ELSE Tuple(vm.interp) =
                    [ Tuple(last.pre) EXCEPT
                        !.registers[Unwrap(Executed).a] = Unwrap(SelectedKey),
                        !.pc = last.pre.pc + 2 ]

\* under COSMAC-VIP a GetKey took the released key while no key was pressed
C29_ReleasedKeyTaken ==
    /\ GotKey
    /\ kind = "COSMACVIP"
    /\ last.pre.input.just_released_key = Some(2)
    /\ last.pre.input.just_pressed_key = None
    /\ vm.interp.registers[5] = 2
    /\ vm.interp.pc = 514

\* C30: after every Interpreter::step, output.awaiting_input is true iff
\* the step executed a GetKey for which no key had been delivered.
C30_AwaitingIffBlocked ==
    (last.op = "exec" /\ last.res # "panic") =>
        (vm.interp.awaiting_input <=> (GotKey /\ SelectedKey = None))


\* ------------------------------------------------------------ properties of the fragments

\* the interpreter fragment the last History::undo call reversed first
Undone == last.fragments[last.cursor].interpreter

\* C23: Interpreter::undo completes without fault for every recorded
\* fragment, whatever its I: it copies back the first min(16, 4096 - I)
\* saved bytes to memory[I ..] (none for I >= 4096).
C23_UndoCopiesSavedBytes ==
    /\ last.op = "undo" => last.res # "panic"
    /\ UndidOne =>
          \A i \in 0 .. 15 :
              Undone.index + i < PROGRAM_MEMORY_SIZE =>
                  Mem(vm.interp, Undone.index + i) = Undone.index_memory[i]

\* C24: every fragment stored in the history has an instruction, an RNG
\* payload iff the instruction is GenerateRandom, and a display payload iff
\* it is ClearScreen.
C24_FragmentsUndoable ==
    \A i \in 1 .. Len(history.fragments) :
        LET f == history.fragments[i].interpreter
            tag == IF IsSome(f.payload) THEN Unwrap(f.payload).tag ELSE "none"
        IN  /\ IsSome(f.instruction)
            /\ tag = "Rng" <=> Unwrap(f.instruction).op = "GenerateRandom"
            /\ tag = "Display" <=> Unwrap(f.instruction).op = "ClearScreen"

\* the history is full and holds a GenerateRandom and a ClearScreen fragment
C24_PayloadsStored ==
    /\ Len(history.fragments) = HISTORY_CAPACITY
    /\ \E i, j \in 1 .. Len(history.fragments) :
         /\ Unwrap(history.fragments[i].interpreter.instruction).op = "GenerateRandom"
         /\ Unwrap(history.fragments[j].interpreter.instruction).op = "ClearScreen"

\* C25: undoing a CallSubroutine or a SubroutineReturn step restores the
\* return stack, same depth and same entries in the same order, and PC.
C25_StackUndone ==
    (UndidOne /\ UndoneOp \in { "CallSubroutine", "SubroutineReturn" }) =>
        /\ ~panicked
        /\ vm.interp.stack = trail[history.cursor + 1].stack
        /\ vm.interp.pc = trail[history.cursor + 1].pc


\* ------------------------------------------------------------ the threads of main

\* main, lines 109-226: the three threads are spawned over the shared VM.
\* renderer tells which render thread runs: the interval closure of main or
\* the loop around Renderer::step.
Spawned(renderer) ==
    [ interp |-> "running", render |-> "idle", event |-> "polling",
      mutex |-> "free", joined |-> 0, renderer |-> renderer, main |-> "joining" ]

\* main, lines 104-226, with the render thread of one of the render threads
InitOfThreads(renderers) ==
    /\ program = "Keys"
    /\ kind = "CHIP48"
    /\ vm = CHIP8VM(Programs[program])
    /\ history = NewHistory
    /\ panicked = FALSE
    /\ trail = << >>
    /\ delivered = 0
    /\ shell = DefaultShell
    /\ last = [ op |-> "main" ]
    /\ \E renderer \in renderers : threads = Spawned(renderer)

\* main, lines 116-169: the interp closure takes the lock and finds the VM
\* active
InterpTick ==
    /\ threads.interp = "running"
    /\ threads.mutex = "free"
    /\ Tick

\* main, lines 116-121: the interp closure finds the VM inactive and is Done
InterpDone ==
    /\ threads.interp = "running"
    /\ threads.mutex = "free"
    /\ ~vm.active
    /\ threads' = [ threads EXCEPT !.interp = "done" ]
    /\ UNCHANGED << shell, program, kind, vm, history, panicked, trail, delivered, last >>

\* a render closure that keeps the lock while it draws
RenderTickHolding ==
    /\ threads.renderer = "main"
    /\ threads.render = "idle"
    /\ threads.mutex = "free"
    /\ vm.active
    /\ \E new_frame \in BOOLEAN :
         threads' = IF new_frame
                      THEN [ threads EXCEPT !.render = "drawing vm", !.mutex = "render" ]
                      ELSE threads
    /\ UNCHANGED << shell, program, kind, vm, history, panicked, trail, delivered, last >>

\* main, lines 176-187: the render closure takes the lock on an active VM;
\* with a new frame it drops the lock and goes on to draw
RenderTick ==
    /\ threads.renderer = "main"
    /\ threads.render = "idle"
    /\ threads.mutex = "free"
    /\ vm.active
    /\ \E new_frame \in BOOLEAN :
         threads' = IF new_frame
                      THEN [ threads EXCEPT !.render = "drawing vm", !.mutex = "free" ]
                      ELSE threads
    /\ UNCHANGED << shell, program, kind, vm, history, panicked, trail, delivered, last >>

\* main, line 184, and render.rs, lines 110-118: terminal.draw returns; the
\* lock, if it was held, is released when the tick ends
RenderDraw ==
    /\ threads.render \in { "drawing vm", "drawing debugger" }
    /\ threads' = [ threads EXCEPT !.render = "idle", !.mutex = "free" ]
    /\ UNCHANGED << shell, program, kind, vm, history, panicked, trail, delivered, last >>

\* a render closure that goes on after the VM has exited
RenderContinues ==
    /\ threads.renderer = "main"
    /\ threads.render = "idle"
    /\ threads.mutex = "free"
    /\ ~vm.active
    /\ UNCHANGED vars

\* main, lines 188-192: the render closure finds the VM inactive, leaves the
\* terminal and is Done
RenderExit ==
    /\ threads.renderer = "main"
    /\ threads.render = "idle"
    /\ threads.mutex = "free"
    /\ ~vm.active
    /\ threads' = [ threads EXCEPT !.render = "done" ]
    /\ UNCHANGED << shell, program, kind, vm, history, panicked, trail, delivered, last >>

\* render.rs, Renderer::step: under the lock it decides whether to draw;
\* the debugger is drawn with the lock held, the virtual machine after
\* drop(_guard)
RendererStep ==
    /\ threads.renderer = "Renderer"
    /\ threads.render = "idle"
    /\ threads.mutex = "free"
    /\ \E should_draw \in BOOLEAN, is_dbg_visible \in BOOLEAN :
         threads' = IF ~should_draw THEN threads
                    ELSE IF is_dbg_visible
                      THEN [ threads EXCEPT !.render = "drawing debugger", !.mutex = "render" ]
                      ELSE [ threads EXCEPT !.render = "drawing vm", !.mutex = "free" ]
    /\ UNCHANGED << shell, program, kind, vm, history, panicked, trail, delivered, last >>

\* render.rs, lines 63-68: the render loop finds its channel disconnected
\* and returns
RendererExit ==
    /\ threads.renderer = "Renderer"
    /\ threads.render = "idle"
    /\ threads' = [ threads EXCEPT !.render = "done" ]
    /\ UNCHANGED << shell, program, kind, vm, history, panicked, trail, delivered, last >>

\* main, lines 203-206 and 217-219: a resize, focus or key event other than
\* the control key is handed to the display or the keyboard under the lock
OtherEvent ==
    /\ threads.event = "polling"
    /\ threads.mutex = "free"
    /\ delivered < MaxEvents
    /\ delivered' = delivered + 1
    /\ UNCHANGED << shell, program, kind, vm, history, panicked, trail, last, threads >>

\* main, lines 208-216: Esc or Ctrl-C: vm.exit() under the lock, and the
\* event thread returns
ControlKey ==
    /\ threads.event = "polling"
    /\ threads.mutex = "free"
    /\ vm' = [ vm EXCEPT !.active = FALSE ]
    /\ threads' = [ threads EXCEPT !.event = "done" ]
    /\ UNCHANGED << shell, program, kind, history, panicked, trail, delivered, last >>

\* main, lines 228-232, on the outcome of the thread whose handle is
\* joined: ? returns its error from main, the last Ok lets main return Ok
Joined(outcome) ==
    IF outcome = "failed" THEN [ threads EXCEPT !.main = "returned Err" ]
    ELSE IF threads.joined = 2
        THEN [ threads EXCEPT !.joined = 3, !.main = "returned Ok" ]
    ELSE [ threads EXCEPT !.joined = @ + 1 ]

\* main, lines 228-230: the handles are joined in the order interp, render,
\* event
Join ==
    /\ threads.main = "joining"
    /\ \E outcome \in { << threads.interp, threads.render, threads.event >>[threads.joined + 1] } :
          /\ outcome \in { "done", "failed" }
          /\ threads' = Joined(outcome)
    /\ UNCHANGED << shell, program, kind, vm, history, panicked, trail, delivered, last >>

\* main, line 184: terminal.draw(&buf)? fails; the closure returns the
\* error and spawn_interval returns it from the thread (line 289)
DrawFails ==
    /\ threads.renderer = "main"
    /\ threads.render = "drawing vm"
    /\ threads' = [ threads EXCEPT !.render = "failed", !.mutex = "free" ]
    /\ UNCHANGED << shell, program, kind, vm, history, panicked, trail, delivered, last >>

\* main, lines 201-202: poll(..)? or read()? fails and the event thread
\* returns the error
PollFails ==
    /\ threads.event = "polling"
    /\ threads' = [ threads EXCEPT !.event = "failed" ]
    /\ UNCHANGED << shell, program, kind, vm, history, panicked, trail, delivered, last >>

InitMain == InitOfThreads({ "main" })

NextMain ==
    \/ InterpTick
    \/ InterpDone
    \/ RenderTick
    \/ RenderDraw
    \/ RenderExit
    \/ OtherEvent
    \/ ControlKey
    \/ Join

\* main, lines 240-292: spawn_interval calls its closure again after every
\* Continue, so a closure that can see the VM inactive does see it; a
\* terminal.draw that was started returns; a join on a thread that has
\* returned returns
FairMain ==
    /\ WF_vars(InterpDone)
    /\ WF_vars(RenderDraw)
    /\ WF_vars(RenderExit)
    /\ WF_vars(Join)

SpecMainFair == InitMain /\ [][NextMain]_vars /\ FairMain

\* the threads of main with terminal I/O that may fail
NextIO == NextMain \/ DrawFails \/ PollFails

SpecMainIO == InitMain /\ [][NextIO]_vars /\ FairMain

InitThreads == InitOfThreads({ "main", "Renderer" })

NextThreads == NextMain \/ RendererStep \/ RendererExit

SpecThreads == InitThreads /\ [][NextThreads]_vars

\* ------------------------------------------------------------ properties of the threads

\* every thread has returned and main has joined all three
AllJoined ==
    /\ threads.interp = "done"
    /\ threads.render = "done"
    /\ threads.event = "done"
    /\ threads.joined = 3

\* C21: once the control key has been handled, active is false and stays
\* false, and each of the three threads eventually exits and is joined.
C21_ExitTerminates ==
    /\ [](~vm.active => [](~vm.active))
    /\ ~vm.active ~> AllJoined

\* the control key was handled, the threads have exited and were joined
C21_Exited == ~vm.active /\ AllJoined /\ last.op = "tick"

\* C22 as stated: the render thread never holds the lock on the VM while it
\* performs a terminal draw, whatever is being drawn.
C22_NeverDrawsLocked ==
    threads.render \in { "drawing vm", "drawing debugger" } => threads.mutex # "render"

\* C22, amended: the render thread never holds the lock on the VM while it
\* draws the display of the virtual machine; the debugger is drawn with the
\* lock held.
C22_DrawsVmUnlocked ==
    /\ threads.render = "drawing vm" => threads.mutex # "render"
    /\ threads.render = "drawing debugger" => threads.mutex = "render"

\* the render closure of main is in terminal.draw after interpreter ticks
C22_DrawingFrame ==
    /\ threads.renderer = "main"
    /\ threads.render = "drawing vm"
    /\ last.op = "tick"


\* ------------------------------------------------------------ properties of the output

\* the request the instruction executed by the last Interpreter::step
\* makes, None when the step failed or the instruction makes none
RequestOf(inst) ==
    IF last.res # "ok" \/ ~IsSome(inst) THEN None
    ELSE IF Unwrap(inst).op \in { "ClearScreen", "Display" }
        THEN Some([ tag |-> "Display", v |-> 0 ])
    ELSE IF Unwrap(inst).op \in { "SetDelayTimer", "SetSoundTimer" }
        THEN Some([ tag |-> Unwrap(inst).op, v |-> last.pre.registers[Unwrap(inst).a] ])
    ELSE None

\* C31: after every Interpreter::step the request of the output is Display
\* exactly when the step executed ClearScreen or Display, SetDelayTimer(Vx)
\* or SetSoundTimer(Vx) exactly when it executed that instruction, and none
\* after every other step and every failed step.
C31_RequestOfThisStep ==
    (last.op = "exec" /\ ~panicked) => vm.interp.request = RequestOf(Executed)

\* a Display failed right after the step that had requested SetSoundTimer
C31_FailedAfterRequest ==
    /\ last.op = "exec"
    /\ last.res = "err"
    /\ IsSome(last.pre.request)
    /\ Unwrap(last.pre.request).tag = "SetSoundTimer"
    /\ IsSome(Executed)
    /\ Unwrap(Executed).op = "Display"


\* ------------------------------------------------------------ properties of History::step

\* the last call was a History::step made at the present that returned
SteppedAtPresent ==
    /\ last.op = "step"
    /\ last.res # "panic"
    /\ last.cursor = Len(last.fragments)

\* C32: a History::step called at the present appends exactly one fragment,
\* the snapshot taken before the step, if and only if the step returned
\* "still running" and the interpreter is not blocked on input; a step that
\* fails, reports that it is no longer running or blocks appends nothing;
\* the cursor afterwards is min(cursor + 1, length).
C32_RecordsOnlyRunning ==
    SteppedAtPresent =>
        /\ last.recorded <=> (last.res = "ok" /\ ~vm.waiting)
        /\ history.fragments =
              IF last.recorded
                  THEN PushFragment(last.fragments, Unwrap(last.state))
                  ELSE last.fragments
        /\ history.cursor = Min(last.cursor + 1, Len(history.fragments))


ToReverse == Min(last.amt, last.cursor)

\* C34: History::undo(vm, amt) reverses exactly min(amt, cursor) fragments,
\* newest first, returns that number, decreases the cursor by it and leaves
\* the fragment sequence unchanged; with cursor = 0 or amt = 0 it reverses
\* nothing and returns 0.
C34_UndoCounts ==
    last.op = "undo" =>
        /\ ~panicked
        /\ last.amt_rewinded = ToReverse
        /\ history.cursor = last.cursor - ToReverse
        /\ history.fragments = last.fragments
        /\ Tuple(vm.interp) =
              IF ToReverse = 0 THEN Tuple(last.pre.interp)
                                ELSE trail[history.cursor + 1]


\* this step is a History::undo that returned
Undoing == last'.op = "undo" /\ ~panicked'

\* C35: the snapshot of the present is taken only by a History::undo made
\* at the present, from the live VM; an undo made in the past leaves it as
\* it is, so it still holds the state from the first step back.
C35_SnapshotTakenAtPresent ==
    [][ /\ (Undoing /\ history.cursor < Len(history.fragments)) =>
              history'.present_fragment = history.present_fragment
        /\ (/\ IsSome(history'.present_fragment)
            /\ history'.present_fragment # history.present_fragment) =>
              /\ Undoing
              /\ history.cursor = Len(history.fragments)
              /\ history'.present_fragment = Some(VMHistoryFragment(vm)) ]_vars

\* an undo was made in the past, and the snapshot it kept is not the
\* fragment of the VM it was called on
C35_UndoneTwice ==
    /\ last.op = "undo"
    /\ ~panicked
    /\ last.amt_rewinded > 0
    /\ last.cursor < Len(last.fragments)
    /\ IsSome(history.present_fragment)
    /\ Unwrap(history.present_fragment).interpreter.pc
          # last.fragments[last.cursor + 1].interpreter.pc


\* the input-shaped fields of a VM or of a fragment
InputShaped(f) ==
    [ keyboard |-> f.keyboard, delay_timer |-> f.delay_timer,
      sound_timer |-> f.sound_timer ]

\* the last call was a History::step that returned
StepReturned == last.op = "step" /\ last.res # "panic"

\* the last History::step ended in the past: the input-shaped fields of the
\* VM are those of the fragment at the cursor
RestoredInPast ==
    (StepReturned /\ history.cursor < Len(history.fragments)) =>
        InputShaped(vm) = InputShaped(history.fragments[history.cursor + 1])

\* the last History::step ended at the present with a snapshot saved
EndedAtPresent ==
    /\ StepReturned
    /\ history.cursor = Len(history.fragments)
    /\ IsSome(last.present)

\* the last History::step replayed the fragment at the cursor
Replayed == last.cursor < Len(last.fragments) /\ ~last.diverged

\* C36 as stated: a History::step that ends at the present with a snapshot
\* saved restores the input state of the VM from the snapshot and consumes
\* it; one that ends in the past overwrites the input-shaped fields from
\* the fragment at the cursor.
C36_RestoredWheneverSaved ==
    /\ EndedAtPresent =>
          /\ InputShaped(vm) = InputShaped(Unwrap(last.present))
          /\ history.present_fragment = None
    /\ RestoredInPast

\* C36, amended: a History::step that ends at the present with a snapshot
\* saved consumes it, and restores the input state of the VM from it when
\* the step replayed a recorded fragment; one that ends in the past
\* overwrites the input-shaped fields from the fragment at the cursor.
C36_RestoredAfterReplay ==
    /\ EndedAtPresent =>
          /\ history.present_fragment = None
          /\ Replayed => InputShaped(vm) = InputShaped(Unwrap(last.present))
    /\ RestoredInPast

\* a replay reached the present and the keys held down when the user
\* stepped back, not those of the replayed fragment, are in the VM
C36_LiveInputBack ==
    /\ EndedAtPresent
    /\ Replayed
    /\ vm.keyboard.down_keys # 0
    /\ Unwrap(last.state).keyboard.down_keys = 0


\* the last call was a History::step that returned and belongs to the
\* redoing of a History::undo made with no input event pending
Redoing ==
    /\ StepReturned
    /\ IsSome(last.trip)
    /\ Unwrap(last.trip).vm.event_queue = << >>

\* C37: when History::undo has reversed k fragments and k History::step
\* calls follow, with no change to the VM or its input in between, every
\* step matches the recorded fragment, the fragment sequence is unchanged,
\* and after the last step the cursor and the state of the VM are those
\* from before the undo.
C37_RedoRoundTrip ==
    Redoing =>
        /\ ~last.diverged
        /\ history.fragments = Unwrap(last.trip).fragments
        /\ Unwrap(last.trip).left = 0 =>
              /\ history.cursor = Unwrap(last.trip).cursor
              /\ Tuple(vm.interp) = Tuple(Unwrap(last.trip).vm.interp)
              /\ InputShaped(vm) = InputShaped(Unwrap(last.trip).vm)

\* an undo made at the present, with fragments before the cursor, was
\* redone, and the keyboard is not as the last redone fragment recorded it
C37_TwoRedone ==
    /\ Redoing
    /\ Unwrap(last.trip).left = 0
    /\ Unwrap(last.trip).cursor = last.cursor + 1
    /\ last.cursor + 1 = Len(history.fragments)
    /\ last.cursor > 0
    /\ last.fragments[last.cursor].interpreter.pc # Unwrap(last.state).interpreter.pc
    /\ vm.keyboard # Unwrap(last.state).keyboard


\* ------------------------------------------------------------ the render channel

\* render.rs, lines 31-56: the render thread is about to enter its loop;
\* the channel is empty and its sender alive. owed counts the messages sent
\* that no Renderer::step with should_redraw = true has followed yet.
RenderLoop ==
    [ render |-> "try_iter", channel |-> 0, sender |-> "alive",
      should_redraw |-> FALSE, owed |-> 0 ]

\* spawn_render_thread has returned the sender and the handle
InitRender ==
    /\ program = "Keys"
    /\ kind = "CHIP48"
    /\ vm = CHIP8VM(Programs[program])
    /\ history = NewHistory
    /\ panicked = FALSE
    /\ trail = << >>
    /\ delivered = 0
    /\ shell = DefaultShell
    /\ last = [ op |-> "spawned" ]
    /\ threads = RenderLoop

\* Sender::send(()) on the render channel
Send ==
    /\ threads.sender = "alive"
    /\ delivered < MaxSends
    /\ delivered' = delivered + 1
    /\ threads' = [ threads EXCEPT !.channel = @ + 1, !.owed = @ + 1 ]
    /\ last' = [ op |-> "send" ]
    /\ UNCHANGED << shell, program, kind, vm, history, panicked, trail >>

\* the sender is dropped
Disconnect ==
    /\ threads.sender = "alive"
    /\ threads' = [ threads EXCEPT !.sender = "dropped" ]
    /\ last' = [ op |-> "drop" ]
    /\ UNCHANGED << shell, program, kind, vm, history, panicked, trail, delivered >>

\* render.rs, lines 59-61: try_iter().last() takes every message there is;
\* should_redraw is set when there was one
TryIter ==
    /\ threads.render = "try_iter"
    /\ threads' = [ threads EXCEPT !.render = "try_recv",
                                   !.should_redraw = @ \/ threads.channel > 0,
                                   !.channel = 0 ]
    /\ last' = [ op |-> "try_iter" ]
    /\ UNCHANGED << shell, program, kind, vm, history, panicked, trail, delivered >>

\* render.rs, lines 63-69: try_recv() takes one message if there is one, and
\* only Err(Disconnected) is looked at: the loop returns
TryRecv ==
    /\ threads.render = "try_recv"
    /\ threads' =
          IF threads.channel > 0
              THEN [ threads EXCEPT !.render = "step", !.channel = @ - 1 ]
          ELSE IF threads.sender = "dropped"
              THEN [ threads EXCEPT !.render = "done" ]
          ELSE [ threads EXCEPT !.render = "step" ]
    /\ last' = [ op |-> "try_recv", taken |-> threads.channel > 0 ]
    /\ UNCHANGED << shell, program, kind, vm, history, panicked, trail, delivered >>

\* render.rs, lines 71-72: renderer.step(&mut terminal, should_redraw, &c8),
\* then should_redraw = false
RenderLoopStep ==
    /\ threads.render = "step"
    /\ threads' = [ threads EXCEPT !.render = "sleep",
                                   !.should_redraw = FALSE,
                                   !.owed = IF threads.should_redraw THEN 0 ELSE @ ]
    /\ last' = [ op |-> "step", should_redraw |-> threads.should_redraw ]
    /\ UNCHANGED << shell, program, kind, vm, history, panicked, trail, delivered >>

\* render.rs, line 74: interval.sleep(), and around the loop
Sleep ==
    /\ threads.render = "sleep"
    /\ threads' = [ threads EXCEPT !.render = "try_iter" ]
    /\ last' = [ op |-> "sleep" ]
    /\ UNCHANGED << shell, program, kind, vm, history, panicked, trail, delivered >>

NextRender ==
    \/ Send
    \/ Disconnect
    \/ TryIter
    \/ TryRecv
    \/ RenderLoopStep
    \/ Sleep

SpecRender == InitRender /\ [][NextRender]_vars

\* C38: no redraw request is lost: a message sent on the render channel is,
\* until a Renderer::step with should_redraw = true has followed it, still
\* in the channel or noted in should_redraw, under every interleaving of
\* the sender with the two reads of the loop.
C38_NoRequestLost ==
    threads.owed > 0 => (threads.channel > 0 \/ threads.should_redraw)


\* ------------------------------------------------------------ properties of the threads under I/O errors

\* the render thread or the event thread has returned an I/O error and the
\* control key has not been handled
FailedWhileActive ==
    /\ vm.active
    /\ (threads.render = "failed" \/ threads.event = "failed")

\* C39: when the render thread or the input poller ends with an I/O error
\* while the control key has not been pressed, the other threads eventually
\* end too and main returns that error; main never blocks forever joining
\* a thread that is still running.
C39_ErrorEndsMain ==
    FailedWhileActive ~> (threads.main = "returned Err")


\* ------------------------------------------------------------ the shell of the debugger

\* the characters a key event can carry: a letter, a space, and one that is not ASCII
Chars == { "a", " ", "U+00E9" }

\* char::is_ascii
IsAscii(c) == c # "U+00E9"

\* the key codes handle_key_event tells apart; "Tab" stands for every other code
KeyCodes ==
    { "Backspace", "Down", "Up", "Enter", "Left", "Right", "Home", "End", "Char", "Tab" }

\* the areas the command line is drawn in: empty ones, ones no wider than the
\* prefix, and ones that leave one or two columns to the input
Areas == [ width : { 0, PrefixWidth, 8, 9 }, height : { 0, 1 } ]

\* usize::saturating_sub
SatSub(a, b) == IF a > b THEN a - b ELSE 0

RECURSIVE TrimStart(_)
\* str::trim_start
TrimStart(s) == IF s # << >> /\ Head(s) = " " THEN TrimStart(Tail(s)) ELSE s

RECURSIVE TrimEnd(_)
\* str::trim_end
TrimEnd(s) ==
    IF s # << >> /\ s[Len(s)] = " " THEN TrimEnd(SubSeq(s, 1, Len(s) - 1)) ELSE s

\* str::trim
Trim(s) == TrimEnd(TrimStart(s))

\* String::insert(idx, ch), idx counted from 0
Insert(s, idx, ch) == SubSeq(s, 1, idx) \o << ch >> \o SubSeq(s, idx + 1, Len(s))

\* String::remove(idx), idx counted from 0
Remove(s, idx) == SubSeq(s, 1, idx) \o SubSeq(s, idx + 2, Len(s))

\* the Enter arm of handle_key_event
EnterKey(sh) ==
    LET cmd ==
            IF sh.input = << >>
            THEN IF sh.history = << >> THEN << >> ELSE sh.history[Len(sh.history)]
            ELSE Trim(sh.input)
        pushed ==
            IF sh.history = << >> \/ sh.history[Len(sh.history)] # cmd
            THEN Append(sh.history, cmd)
            ELSE sh.history
    IN  IF cmd # << >>
        THEN [ sh EXCEPT !.history = pushed, !.history_index = Len(pushed),
                         !.input = << >>, !.cursor_position = 0 ]
        ELSE sh

\* the history arms of handle_key_event: the input becomes history[index]
Recall(sh, index) ==
    [ sh EXCEPT !.history_index = index, !.input = sh.history[index + 1],
                !.cursor_position = Len(sh.history[index + 1]) ]

\* Shell::handle_key_event
HandleKeyEvent(sh, code, char) ==
    IF ~sh.input_enabled THEN sh
    ELSE CASE code = "Backspace" ->
                IF sh.cursor_position > 0
                THEN [ sh EXCEPT !.input = Remove(sh.input, sh.cursor_position - 1),
                                 !.cursor_position = sh.cursor_position - 1 ]
                ELSE sh
           [] code = "Down" ->
                IF sh.history_index < SatSub(Len(sh.history), 1)
                THEN Recall(sh, sh.history_index + 1)
                ELSE sh
           [] code = "Up" ->
                IF sh.history_index > 0 THEN Recall(sh, sh.history_index - 1) ELSE sh
           [] code = "Enter" -> EnterKey(sh)
           [] code = "Left" ->
                [ sh EXCEPT !.cursor_position = SatSub(sh.cursor_position, 1) ]
           [] code = "Right" ->
                [ sh EXCEPT !.cursor_position =
                                Min(sh.cursor_position + 1, Len(sh.input)) ]
           [] code = "Home" -> [ sh EXCEPT !.cursor_position = 0 ]
           [] code = "End" -> [ sh EXCEPT !.cursor_position = Len(sh.input) ]
           [] code = "Char" ->
                IF IsAscii(char)
                THEN [ sh EXCEPT !.input = Insert(sh.input, sh.cursor_position, char),
                                 !.cursor_position = sh.cursor_position + 1 ]
                ELSE sh
           [] OTHER -> sh

\* CommandLineWidget::compute_draw_params, the input_area_width
InputAreaWidth(area) == SatSub(area.width, PrefixWidth)

\* the first adjustment of cursor_position: the window follows the cursor
FollowCursor(sh, width) ==
    IF sh.cursor_position < sh.input_offset THEN sh.cursor_position
    ELSE IF sh.cursor_position >= sh.input_offset + width
         THEN sh.cursor_position - (width - 1)
         ELSE sh.input_offset

\* the second adjustment of cursor_position: the window ends where the input ends
FitInput(sh, width, offset) ==
    IF offset + (width - 1) > Len(sh.input) THEN SatSub(Len(sh.input), width) ELSE offset

\* the input_offset CommandLineWidget::cursor_position leaves in the widget state
CursorPosition(sh, area) ==
    IF area.width * area.height = 0 \/ ~sh.input_enabled THEN sh.input_offset
    ELSE IF InputAreaWidth(area) > 0
         THEN FitInput(sh, InputAreaWidth(area), FollowCursor(sh, InputAreaWidth(area)))
         ELSE sh.input_offset

\* whether CommandLineWidget::render takes the slice input[input_offset..]
Slices(sh, area) == area.width * area.height # 0 /\ sh.input_enabled

\* the debugger turns the line editor on and off
SetInputEnabled ==
    /\ last.op # "cursor_position"
    /\ \E enabled \in BOOLEAN :
        /\ shell' = [ shell EXCEPT !.input_enabled = enabled ]
        /\ last' = [ op |-> "input_enabled" ]
    /\ UNCHANGED << program, kind, vm, history, panicked, trail, delivered, threads >>

\* a key event reaches the shell between two frames
KeyEventHandled ==
    /\ last.op # "cursor_position"
    /\ \E code \in KeyCodes, char \in Chars :
        /\ code # "Char" => char = "a"
        /\ \E next \in { HandleKeyEvent(shell, code, char) } :
            /\ Len(next.input) <= MaxInput
            /\ Len(next.history) <= MaxCommands
            /\ shell' = next
        /\ last' = [ op |-> "handle_key_event", code |-> code ]
    /\ UNCHANGED << program, kind, vm, history, panicked, trail, delivered, threads >>

\* a frame begins: cursor_position updates the input_offset for the frame's area
CursorPositionCalled ==
    /\ last.op # "cursor_position"
    /\ \E area \in Areas :
        /\ shell' = [ shell EXCEPT !.input_offset = CursorPosition(shell, area) ]
        /\ last' = [ op |-> "cursor_position", area |-> area ]
    /\ UNCHANGED << program, kind, vm, history, panicked, trail, delivered, threads >>

\* the frame ends: render draws the same area, and a slice that starts behind
\* the end of the input panics
Rendered ==
    /\ last.op = "cursor_position"
    /\ panicked' = (Slices(shell, last.area) /\ shell.input_offset > Len(shell.input))
    /\ last' = [ op |-> "render", area |-> last.area,
                 sliced |-> Slices(shell, last.area) ]
    /\ UNCHANGED << shell, program, kind, vm, history, trail, delivered, threads >>

InitShell ==
    /\ program = "Keys"
    /\ kind = "CHIP48"
    /\ vm = CHIP8VM(Programs[program])
    /\ history = NewHistory
    /\ panicked = FALSE
    /\ trail = << >>
    /\ delivered = 0
    /\ shell = DefaultShell
    /\ last = [ op |-> "default" ]
    /\ threads = NotSpawned

NextShell ==
    /\ ~panicked
    /\ \/ SetInputEnabled
       \/ KeyEventHandled
       \/ CursorPositionCalled
       \/ Rendered

SpecShell == InitShell /\ [][NextShell]_vars

\* C40: after any sequence of key events handled by handle_key_event the cursor is
\* within the input, 0 <= cursor_position <= input.len(); and once cursor_position
\* has run for a frame, the render that takes the slice input[input_offset..] finds
\* input_offset <= cursor_position <= input.len() and the slice within bounds
C40_SliceWithinInput ==
    /\ shell.cursor_position >= 0
    /\ shell.cursor_position <= Len(shell.input)
    /\ (last.op = "render" /\ last.sliced) =>
        /\ shell.input_offset <= shell.cursor_position
        /\ ~panicked

====
